---- MODULE Spec2Model ----
(***************************************************************************)
(* Reply classification and incremental sync pipeline:                     *)
(*   heyreach_to_hubspot.py, instantly_to_hubspot.py (sync passes) and     *)
(*   check_followups.py (reminder runs), against one shared record store.  *)
(***************************************************************************)
EXTENDS Integers, Sequences, FiniteSets, TLC

(* ------------------------------------------------------------------ *)
(* Bounds of the model                                                 *)
(* ------------------------------------------------------------------ *)
\* longest list of lead records handed to the deduplicator
MaxLeads == 3
\* the wall clock runs from 1 to MaxClock
MaxClock == 3
\* clock units in one UTC day (to_midnight_ms rounds down to a multiple of it)
DayLen == 2

\* records per batch upsert request (the scripts send 100; scaled down)
BatchSize == 2
\* invocations of a sync script in one behaviour
MaxPasses == 2
\* invocations of check_followups in one behaviour
MaxRuns == 2
\* contacts of the store that check_followups looks at
MaxContacts == 2
\* messages of a conversation handed to the normalizer on its own
MaxMsgs == 2
\* campaigns the source lists
MaxCampaigns == 2
\* longest list of lead records handed to batch_upsert_contacts on its own
MaxUpsert == 5

\* the two sync scripts
Platforms == {"heyreach", "instantly"}

VARIABLES
    \* the world outside the process
    source,         \* campaigns of the conversation source, with their conversations
    store,          \* contacts of the record store, in creation order
    urlUnique,      \* whether the store treats the profile URL as a unique identity
    stateFile,      \* STATE_FILE of each script: the persisted last_run
    clock,          \* wall clock
    \* check_followups: the contacts it searches, and its process
    crm,            \* per contact id: is_postponed and followup_date
    fpc, fenv, runs,
    contacts, fi, sent,
    reminders,      \* per contact id: reminders delivered to the channel
    \* the normalizer on its own: classifiers, time resolver, extract_lead_data
    today,          \* the date of datetime.now(timezone.utc), as [y, m, d]
    nin,            \* the conversation and campaign name handed to the normalizer
    npc,            \* which call was made last
    nout,           \* the arguments and the result of that call
    sector_cache,   \* sector_cache of main: campaign name -> sector
    ncalls,         \* calls of classify_reply_sentiment made by the last call
    \* the running sync process (main)
    platform, pc, env, passes,
    last_run, now, campaigns, ci, conversations, vi,
    all_leads, errors, results, with_email, without_email, bi, ni,
    \* what the pass did, as an observer sees it
    log,            \* messages logged by the pass
    nReads, nWrites,\* reads and writes of STATE_FILE in the pass
    storeReqs,      \* write requests sent to the store in the pass
    batchLog,       \* per batch request: its records and the store's answer
    dedupIn,        \* all_leads as handed to the deduplication
    store0,         \* the store when batch_upsert_contacts was entered
    failed,         \* conversations whose extraction raised or whose write errored
    written,        \* conversations whose record the store accepted in the pass
    skipped,        \* conversations the incremental filter skipped in the pass
    ckptAtLaunch,   \* STATE_FILE as it was when the pass was started
    prev,           \* the previous pass: whether it read and wrote, and its last_run
    owed,           \* conversations that failed in a pass that saved the checkpoint
                    \* and were not written since
    \* the postponed replies of a pass
    postponed_leads,\* postponed_leads of main
    slack,          \* messages posted to the webhook of the sync script
    summary         \* the counts of the "SYNC SUMMARY" lines

vars == <<source, store, urlUnique, stateFile, clock, platform, pc, env, passes,
          last_run, now, campaigns, ci, conversations, vi, all_leads, errors,
          results, with_email, without_email, bi, ni, log, nReads, nWrites,
          storeReqs, batchLog, dedupIn, store0, failed, written, skipped,
          ckptAtLaunch, prev, owed, crm, fpc, fenv, runs, contacts, fi, sent,
          reminders, today, nin, npc, nout, sector_cache, ncalls,
          postponed_leads, slack, summary>>

followups == <<crm, fpc, fenv, runs, contacts, fi, sent, reminders>>
normalizer == <<today, nin, npc, nout, sector_cache, ncalls>>
postponed == <<postponed_leads, slack, summary>>
\* what no step of a sync pass changes; the postponed replies are followed in
\* the specification of their own
world == <<source, urlUnique, followups, normalizer, postponed>>
locals == <<last_run, now, campaigns, ci, conversations, vi, all_leads, errors,
            results, with_email, without_email, bi, ni>>
upsertObs == <<storeReqs, batchLog, store0>>
history == <<ckptAtLaunch, prev>>

(* ------------------------------------------------------------------ *)
(* Strings: an email is a sequence of characters                       *)
(* ------------------------------------------------------------------ *)
UpperLetters == <<"A", "B", "C", "D", "E", "F", "G", "H", "I", "J", "K", "L", "M",
                  "N", "O", "P", "Q", "R", "S", "T", "U", "V", "W", "X", "Y", "Z">>
LowerLetters == <<"a", "b", "c", "d", "e", "f", "g", "h", "i", "j", "k", "l", "m",
                  "n", "o", "p", "q", "r", "s", "t", "u", "v", "w", "x", "y", "z">>

LowerChar(c) ==
    IF \E i \in 1..26 : UpperLetters[i] = c
    THEN LowerLetters[CHOOSE i \in 1..26 : UpperLetters[i] = c]
    ELSE c

\* str.lower()
Lower(s) == [i \in 1..Len(s) |-> LowerChar(s[i])]

RECURSIVE LStrip(_)
LStrip(s) == IF s # <<>> /\ Head(s) = " " THEN LStrip(Tail(s)) ELSE s

RECURSIVE RStrip(_)
RStrip(s) ==
    IF s # <<>> /\ s[Len(s)] = " " THEN RStrip(SubSeq(s, 1, Len(s) - 1)) ELSE s

\* str.strip()
Strip(s) == RStrip(LStrip(s))

\* lexicographic order of two strings of decimal digits (Python's < on str)
RECURSIVE StrLess(_, _)
StrLess(a, b) ==
    IF b = <<>> THEN FALSE
    ELSE IF a = <<>> THEN TRUE
    ELSE IF Head(a) # Head(b) THEN Head(a) < Head(b)
    ELSE StrLess(Tail(a), Tail(b))

\* a key that is the email as written
RawEmailKeyMutant(lead) == lead.email

\* key = lead.get("email", "").strip().lower()
DedupKey(lead) == Lower(Strip(lead.email))

\* str(n) for n >= 0
RECURSIVE Digits(_)
Digits(n) == IF n < 10 THEN <<n>> ELSE Digits(n \div 10) \o <<n % 10>>

(* ------------------------------------------------------------------ *)
(* Timestamps of the conversation source                               *)
(*   fmt "none": absent or empty; "iso": an ISO-8601 string;           *)
(*   "ms": epoch milliseconds (13 digits, leading digit 1)             *)
(* ------------------------------------------------------------------ *)
NoTs == [fmt |-> "none", t |-> 0]
Iso(n) == [fmt |-> "iso", t |-> n]
Ms(n) == [fmt |-> "ms", t |-> n]
\* an ISO-8601 string with a UTC offset: t is the wall-clock reading the string
\* shows, off the offset of that clock from UTC
IsoAt(n, off) == [fmt |-> "iso", t |-> n, off |-> off]
Offset(ts) == IF "off" \in DOMAIN ts THEN ts.off ELSE 0

\* str(a) < str(b): within one format the strings have one width and order as
\* the instants do; a millisecond string ("1...") sorts before an ISO string
\* ("2...") and the empty string before both
TsLess(a, b) ==
    IF a.fmt = b.fmt THEN a.fmt # "none" /\ a.t < b.t
    ELSE IF a.fmt = "none" THEN TRUE
    ELSE IF b.fmt = "none" THEN FALSE
    ELSE a.fmt = "ms"

\* heyreach to_midnight_ms: int(ts) fails on an ISO string and gives ""
MidnightMsHeyreach(ts) ==
    IF ts.fmt = "ms" THEN Digits((ts.t \div DayLen) * DayLen) ELSE <<>>

\* instantly to_midnight_ms: datetime.fromisoformat of the string, then
\* dt.replace(hour=0, ...), which keeps the offset of the string: the midnight
\* of the string's own clock, as an instant
MidnightMsInstantly(ts) ==
    IF ts.fmt = "iso" THEN Digits((ts.t \div DayLen) * DayLen - Offset(ts)) ELSE <<>>

(* ------------------------------------------------------------------ *)
(* Lead extraction (extract_lead_data)                                 *)
(* ------------------------------------------------------------------ *)
Inbound(msgs) == SelectSeq(msgs, LAMBDA m : m.sender # "ME")
Outbound(msgs) == SelectSeq(msgs, LAMBDA m : m.sender = "ME")

\* the loop "if ts and (latest is None or str(ts) > str(latest))": the message
\* that ends up as the latest one, as [ts, body]
RECURSIVE LatestOf(_, _)
LatestOf(msgs, acc) ==
    IF msgs = <<>> THEN acc
    ELSE LET m == Head(msgs)
         IN  LatestOf(Tail(msgs),
                      IF m.createdAt.fmt # "none" /\ TsLess(acc.ts, m.createdAt)
                      THEN [ts |-> m.createdAt, body |-> m.body]
                      ELSE acc)

Latest(msgs) == LatestOf(msgs, [ts |-> NoTs, body |-> ""])

NoLead == [kind |-> "none"]
Raised == [kind |-> "raise"]

\* a normalizer that also takes an email as the identity of a conversation
EmailIdentityMutant(conv) == conv.profileUrl = "" /\ conv.email = <<>>

\* "if not lead: return None", "if not profile_url: return None"
NoProfile(conv) == conv.profileUrl = ""

ExtractHeyreach(conv) ==
    IF NoProfile(conv) THEN NoLead
    ELSE IF conv.msgs = <<>> THEN NoLead
    ELSE LET inb == Inbound(conv.msgs)
             lo == Latest(Outbound(conv.msgs))
             lr == Latest(inb)
         IN  [kind |-> "lead",
              lead |-> [src |-> conv.id,
                        email |-> conv.email,
                        linkedin |-> conv.profileUrl,
                        latest_outbound_date |-> MidnightMsHeyreach(lo.ts),
                        has_responded |-> IF Len(inb) > 0 THEN "true" ELSE "false",
                        latest_response_text |-> lr.body,
                        latest_response_date |-> MidnightMsHeyreach(lr.ts),
                        response_count |-> Len(inb)]]

\* instantly compares the timestamp strings with "" directly and calls
\* ts_str.replace: a timestamp that is not a string raises
ExtractInstantly(conv, emails) ==
    IF conv.email = <<>> THEN NoLead
    ELSE IF \E i \in 1..Len(emails) : emails[i].createdAt.fmt = "ms" THEN Raised
    ELSE LET inb == Inbound(emails)
             lo == Latest(Outbound(emails))
             lr == Latest(inb)
         IN  [kind |-> "lead",
              lead |-> [src |-> conv.id,
                        email |-> conv.email,
                        linkedin |-> "",
                        latest_outbound_date |-> MidnightMsInstantly(lo.ts),
                        has_responded |-> IF Len(inb) > 0 THEN "true" ELSE "false",
                        latest_response_text |-> lr.body,
                        latest_response_date |-> MidnightMsInstantly(lr.ts),
                        response_count |-> Len(inb)]]

(* ------------------------------------------------------------------ *)
(* Deduplication (main, "Deduplicate leads by email")                  *)
(* ------------------------------------------------------------------ *)
\* position of key k in the insertion-ordered dict `seen`, 0 when absent
SeenIndex(seen, k) ==
    IF \E i \in 1..Len(seen) : seen[i].key = k
    THEN CHOOSE i \in 1..Len(seen) : seen[i].key = k
    ELSE 0

\* a merge that always keeps the first record of a key
KeepFirstMutant(lead, existing) == FALSE

\* a merge in which a candidate with the same response date also replaces
ReplaceOnTieMutant(lead, existing) ==
    /\ lead.has_responded = "true"
    /\ \/ existing.has_responded # "true"
       \/ ~StrLess(lead.latest_response_date, existing.latest_response_date)

\* the candidate replaces the incumbent
Replaces(lead, existing) ==
    \/ lead.has_responded = "true" /\ existing.has_responded # "true"
    \/ /\ lead.has_responded = "true"
       /\ existing.has_responded = "true"
       /\ StrLess(existing.latest_response_date, lead.latest_response_date)

\* one iteration of the loop over all_leads; d = [seen, no_email]
\* keepNoEmail: heyreach appends key-less leads to no_email, instantly skips them
DedupStep(d, lead, keepNoEmail) ==
    LET key == DedupKey(lead)
        i == SeenIndex(d.seen, key)
    IN  IF key = <<>>
        THEN IF keepNoEmail
             THEN [d EXCEPT !.no_email = Append(@, lead)]
             ELSE d
        ELSE IF i = 0
        THEN [d EXCEPT !.seen = Append(@, [key |-> key, lead |-> lead])]
        ELSE IF Replaces(lead, d.seen[i].lead)
        THEN [d EXCEPT !.seen[i].lead = lead]
        ELSE d

RECURSIVE DedupLoop(_, _, _)
DedupLoop(d, leads, keepNoEmail) ==
    IF leads = <<>> THEN d
    ELSE DedupLoop(DedupStep(d, Head(leads), keepNoEmail), Tail(leads), keepNoEmail)

SeenValues(seen) == [i \in 1..Len(seen) |-> seen[i].lead]

\* heyreach: all_leads = list(seen.values()) + no_email
DedupHeyreach(leads) ==
    LET d == DedupLoop([seen |-> <<>>, no_email |-> <<>>], leads, TRUE)
    IN  SeenValues(d.seen) \o d.no_email

\* an instantly deduplication that hands key-less records on
KeepKeylessMutant(leads) == DedupHeyreach(leads)

\* instantly: all_leads = list(seen.values())
DedupInstantly(leads) ==
    LET d == DedupLoop([seen |-> <<>>, no_email |-> <<>>], leads, FALSE)
    IN  SeenValues(d.seen)

Dedup(p, leads) == IF p = "heyreach" THEN DedupHeyreach(leads) ELSE DedupInstantly(leads)

(* ------------------------------------------------------------------ *)
(* The record store (external collaborator)                            *)
(*   a contact is [createdBy, key, props]: the conversation whose      *)
(*   record created it, its normalized email and its properties        *)
(* ------------------------------------------------------------------ *)
SeqFields == {"email", "latest_outbound_date", "latest_response_date"}
AlwaysSent == {"src", "response_count"}

\* "if v" of the comprehension {k: v for k, v in lead.items() if v}
Truthy(f, v) ==
    IF f \in AlwaysSent THEN TRUE
    ELSE IF f \in SeqFields THEN v # <<>>
    ELSE v # ""

\* the store overwrites the properties the request carries
MergeProps(old, lead) ==
    [f \in DOMAIN lead |-> IF Truthy(f, lead[f]) THEN lead[f] ELSE old[f]]

StoreFind(st, key) ==
    IF \E i \in 1..Len(st) : st[i].key = key
    THEN CHOOSE i \in 1..Len(st) : st[i].key = key
    ELSE 0

StoreFindUrl(st, url) ==
    IF \E i \in 1..Len(st) : st[i].props.linkedin = url
    THEN CHOOSE i \in 1..Len(st) : st[i].props.linkedin = url
    ELSE 0

\* the store compares email identities case-insensitively and trimmed
StoreKey(lead) == Lower(Strip(lead.email))

NewContact(lead) ==
    [createdBy |-> lead.src, key |-> StoreKey(lead), props |-> lead]

\* keyed batch upsert of the items, in order: r = [store, created, updated]
RECURSIVE ApplyBatch(_, _)
ApplyBatch(r, items) ==
    IF items = <<>> THEN r
    ELSE LET lead == Head(items)
             i == StoreFind(r.store, StoreKey(lead))
         IN  ApplyBatch(
                 IF i = 0
                 THEN [r EXCEPT !.store = Append(@, NewContact(lead)),
                                !.created = @ + 1]
                 ELSE [r EXCEPT !.store[i].props = MergeProps(@, lead),
                                !.updated = @ + 1],
                 Tail(items))

SrcOf(leads) == {leads[i].src : i \in 1..Len(leads)}

(* ------------------------------------------------------------------ *)
(* batch_upsert_contacts                                               *)
(* ------------------------------------------------------------------ *)
NumBatches(n) == (n + BatchSize - 1) \div BatchSize

Min(a, b) == IF a < b THEN a ELSE b

\* leads_with_email[i : i + 100] of the bi-th iteration
BatchAt(leads, b) ==
    SubSeq(leads, (b - 1) * BatchSize + 1, Min(b * BatchSize, Len(leads)))

\* heyreach splits on l.get("email"); instantly batches every lead
LeadsWithEmail(p, leads) ==
    IF p = "heyreach" THEN SelectSeq(leads, LAMBDA l : l.email # <<>>) ELSE leads

LeadsWithoutEmail(p, leads) ==
    IF p = "heyreach" THEN SelectSeq(leads, LAMBDA l : l.email = <<>>) ELSE <<>>

UpsertFinished(b, n) ==
    b > NumBatches(Len(with_email)) /\ n > Len(without_email)

\* the store's answers to a batch request: an HTTP error status, a transport
\* failure, or a 2xx answer carrying results for the first k inputs (k below
\* the batch size: a multi-status answer)
BatchAnswers(batch) ==
    {[kind |-> "http_error", k |-> 0], [kind |-> "exception", k |-> 0]}
    \cup (IF \A i \in 1..Len(batch) : StoreKey(batch[i]) # <<>>
          THEN {[kind |-> "ok", k |-> k] : k \in 0..Len(batch)}
          ELSE {})

\* the except clauses of the batch request
BatchErrors(batch) == Len(batch)

\* what follows a failed batch request: the loop goes on with the next batch
AbortAfterFailureMutant(b) == NumBatches(Len(with_email)) + 1

\* a loop that sends a failed batch again
RetryFailedBatchMutant(b) == b

AfterFailedBatch(b) == b + 1

\* one iteration of "for i in range(0, len(leads_with_email), 100)"
UpsertBatch ==
    /\ pc = "upsert"
    /\ bi <= NumBatches(Len(with_email))
    /\ LET batch == BatchAt(with_email, bi)
       IN  \E a \in BatchAnswers(batch) :
             LET r == ApplyBatch([store |-> store, created |-> 0, updated |-> 0],
                                 SubSeq(batch, 1, a.k))
                 ok == a.kind = "ok"
                 nb == IF ok THEN bi + 1 ELSE AfterFailedBatch(bi)
             IN  /\ store' = IF ok THEN r.store ELSE store
                 /\ results' =
                      IF ok
                      THEN [results EXCEPT !.created = @ + r.created,
                                           !.updated = @ + r.updated]
                      ELSE [results EXCEPT !.errors = @ + BatchErrors(batch)]
                 /\ failed' = IF ok THEN failed ELSE failed \cup SrcOf(batch)
                 /\ written' = IF ok THEN written \cup SrcOf(SubSeq(batch, 1, a.k))
                               ELSE written
                 /\ batchLog' = Append(batchLog,
                                       [batch |-> batch, answer |-> a,
                                        created |-> IF ok THEN r.created ELSE 0,
                                        updated |-> IF ok THEN r.updated ELSE 0])
                 /\ bi' = nb
                 /\ pc' = IF UpsertFinished(nb, ni) THEN "save" ELSE "upsert"
    /\ storeReqs' = storeReqs + 1
    /\ UNCHANGED <<world, stateFile, clock, platform, env, passes, last_run, now,
                   campaigns, ci, conversations, vi, all_leads, errors,
                   with_email, without_email, ni, log, nReads, nWrites, dedupIn,
                   store0, skipped, owed, history>>

\* the store's answers to an individual create: 409 when the identity exists
CreateAnswers(lead) ==
    {"http_error", "exception"}
    \cup (IF urlUnique /\ StoreFindUrl(store, lead.linkedin) # 0
          THEN {"conflict"} ELSE {"created"})

\* one iteration of "for lead in leads_without_email" (heyreach only)
CreateContact ==
    /\ pc = "upsert"
    /\ bi > NumBatches(Len(with_email))
    /\ ni <= Len(without_email)
    /\ LET lead == without_email[ni]
       IN  \E a \in CreateAnswers(lead) :
             /\ store' = IF a = "created" THEN Append(store, NewContact(lead))
                         ELSE store
             /\ results' =
                  IF a = "conflict" THEN [results EXCEPT !.updated = @ + 1]
                  ELSE IF a = "created" THEN [results EXCEPT !.created = @ + 1]
                  ELSE [results EXCEPT !.errors = @ + 1]
             /\ failed' = IF a \in {"http_error", "exception"}
                          THEN failed \cup {lead.src} ELSE failed
             /\ written' = IF a \in {"created", "conflict"}
                           THEN written \cup {lead.src} ELSE written
             /\ batchLog' = Append(batchLog,
                                   [batch |-> <<lead>>,
                                    answer |-> [kind |-> a, k |-> 1],
                                    created |-> IF a = "created" THEN 1 ELSE 0,
                                    updated |-> IF a = "conflict" THEN 1 ELSE 0])
    /\ ni' = ni + 1
    /\ pc' = IF UpsertFinished(bi, ni + 1) THEN "save" ELSE "upsert"
    /\ storeReqs' = storeReqs + 1
    /\ UNCHANGED <<world, stateFile, clock, platform, env, passes, last_run, now,
                   campaigns, ci, conversations, vi, all_leads, errors,
                   with_email, without_email, bi, log, nReads, nWrites, dedupIn,
                   store0, skipped, owed, history>>

(* ------------------------------------------------------------------ *)
(* The conversation source                                             *)
(* ------------------------------------------------------------------ *)
Msg(sender, ts, body) == [sender |-> sender, createdAt |-> ts, body |-> body]

Conv(id, url, email, last, msgs) ==
    [id |-> id, profileUrl |-> url, email |-> email, lastMessageAt |-> last,
     msgs |-> msgs]

\* a lead that replied, reachable by email
ConvA == Conv("A", "p1", <<"a">>, Iso(0),
              <<Msg("ME", Iso(0), "intro"), Msg("LEAD", Iso(0), "maybe later")>>)
\* a lead without email; only its messages carry (millisecond) timestamps
ConvB == Conv("B", "p2", <<>>, NoTs, <<Msg("ME", Ms(0), "intro")>>)
\* the person of ConvA in another campaign, email written differently
ConvC == Conv("C", "p1", <<"A", " ">>, Iso(2), <<Msg("ME", Iso(2), "intro")>>)
\* a lead without email and without any timestamp
ConvD == Conv("D", "p3", <<>>, NoTs, <<Msg("ME", NoTs, "intro")>>)
\* a conversation without profile and without email
ConvE == Conv("E", "", <<>>, Iso(0), <<Msg("ME", Iso(0), "intro")>>)

ConvLists == {<<>>, <<ConvA, ConvB>>, <<ConvC>>, <<ConvD, ConvE>>, <<ConvA>>}

Worlds ==
    UNION {[1..n -> {[convs |-> cl] : cl \in ConvLists}] : n \in 0..MaxCampaigns}

\* the latest activity the incremental filter of heyreach looks at
LatestTs(conv) ==
    IF conv.lastMessageAt.fmt # "none" THEN conv.lastMessageAt
    ELSE Latest(conv.msgs).ts

\* "if last_run: ... if latest_ts and str(latest_ts) < last_run: continue"
FilteredOut(p, conv, lastRun) ==
    /\ p = "heyreach"
    /\ lastRun.fmt # "none"
    /\ LatestTs(conv).fmt # "none"
    /\ TsLess(LatestTs(conv), lastRun)

Extract(p, conv, emails) ==
    IF p = "heyreach" THEN ExtractHeyreach(conv) ELSE ExtractInstantly(conv, emails)

(* ------------------------------------------------------------------ *)
(* main: one sync pass                                                 *)
(* ------------------------------------------------------------------ *)
ZeroResults == [created |-> 0, updated |-> 0, errors |-> 0]

Envs == {"ok", "no_source_key", "no_hubspot_token"}

\* a sync script is started
Launch ==
    /\ pc = "idle"
    /\ passes < MaxPasses
    /\ passes' = passes + 1
    /\ env' \in Envs
    /\ pc' = "validate"
    /\ last_run' = NoTs /\ now' = 0
    /\ campaigns' = <<>> /\ ci' = 0
    /\ conversations' = <<>> /\ vi' = 0
    /\ all_leads' = <<>> /\ errors' = <<>> /\ results' = ZeroResults
    /\ with_email' = <<>> /\ without_email' = <<>> /\ bi' = 0 /\ ni' = 0
    /\ log' = {} /\ nReads' = 0 /\ nWrites' = 0 /\ storeReqs' = 0
    /\ batchLog' = <<>> /\ dedupIn' = <<>> /\ store0' = <<>>
    /\ failed' = {} /\ written' = {} /\ skipped' = {}
    /\ ckptAtLaunch' = stateFile
    /\ prev' = [ran |-> passes > 0, read |-> nReads > 0, wrote |-> nWrites > 0,
                last_run |-> last_run]
    /\ UNCHANGED <<world, store, stateFile, clock, platform, owed>>

\* "Validate env vars"
ValidateEnv ==
    /\ pc = "validate"
    /\ IF env = "ok"
       THEN pc' = "load" /\ log' = log
       ELSE pc' = "idle" /\ log' = log \cup {"credential not set"}
    /\ UNCHANGED <<world, store, stateFile, clock, platform, env, passes, locals,
                   nReads, nWrites, upsertObs, dedupIn, failed, written, skipped,
                   owed, history>>

\* "1. Load last run state": load_last_run(), then now = datetime.now(utc)
\* a load that forgets the persisted checkpoint
ForgetCheckpointMutant == NoTs

\* load_last_run(): the last_run of STATE_FILE, None if there is no file
LoadedLastRun == stateFile

\* "last_run = load_last_run()", "now = datetime.now(timezone.utc)"
LoadLastRun ==
    /\ pc = "load"
    /\ last_run' = LoadedLastRun
    /\ now' = clock
    /\ nReads' = nReads + 1
    /\ pc' = "campaigns"
    /\ UNCHANGED <<world, store, stateFile, clock, platform, env, passes,
                   campaigns, ci, conversations, vi, all_leads, errors, results,
                   with_email, without_email, bi, ni, log, nWrites, upsertObs,
                   dedupIn, failed, written, skipped, owed, history>>

\* a campaign loop that gives up after a campaign
AbortAfterCampaignMutant(c) == "idle"

\* where the campaign loop goes after campaign c
AfterCampaign(c) == IF c >= Len(campaigns) THEN "dedup" ELSE "campaign"

\* "2. Get all campaigns"
GetAllCampaigns ==
    /\ pc = "campaigns"
    /\ \E ok \in BOOLEAN :
         IF ~ok
         THEN /\ pc' = "idle"
              /\ log' = log \cup {"Failed to fetch campaigns"}
              /\ UNCHANGED <<campaigns, ci>>
         ELSE /\ campaigns' = source
              /\ ci' = 1
              /\ pc' = IF source = <<>> THEN "save_empty" ELSE "campaign"
              /\ log' = IF source = <<>>
                        THEN log \cup {"No campaigns found. Nothing to do."}
                        ELSE log
    /\ UNCHANGED <<world, store, stateFile, clock, platform, env, passes,
                   last_run, now, conversations, vi, all_leads, errors, results,
                   with_email, without_email, bi, ni, nReads, nWrites, upsertObs,
                   dedupIn, failed, written, skipped, owed, history>>

\* a save of the time the pass ended
SavedCompletionTimeMutant == Iso(clock)

\* the value save_last_run writes
SavedValue == Iso(now)

\* "if not campaigns: ... save_last_run(now); return"
SaveEmpty ==
    /\ pc = "save_empty"
    /\ stateFile' = SavedValue
    /\ nWrites' = nWrites + 1
    /\ pc' = "idle"
    /\ UNCHANGED <<world, store, clock, platform, env, passes, locals, log,
                   nReads, upsertObs, dedupIn, failed, written, skipped, owed, history>>

\* get_conversations_for_campaign / get_leads_for_campaign of campaign ci
FetchConversations ==
    /\ pc = "campaign"
    /\ \E ok \in BOOLEAN :
         IF ~ok
         THEN /\ errors' = Append(errors, [kind |-> "campaign", id |-> ci])
              /\ UNCHANGED <<conversations, vi>>
              /\ ci' = ci + 1
              /\ pc' = AfterCampaign(ci)
         ELSE /\ errors' = errors
              /\ conversations' = campaigns[ci].convs
              /\ vi' = 1
              /\ IF campaigns[ci].convs = <<>>
                 THEN ci' = ci + 1 /\ pc' = AfterCampaign(ci)
                 ELSE ci' = ci /\ pc' = "conv"
    /\ UNCHANGED <<world, store, stateFile, clock, platform, env, passes,
                   last_run, now, campaigns, all_leads, results, with_email,
                   without_email, bi, ni, log, nReads, nWrites, upsertObs,
                   dedupIn, failed, written, skipped, owed, history>>

\* a pass that gives up when one item raises
AbortOnRaiseMutant(next) == "idle"

\* "except Exception as e: ... errors.append(...)": the loop goes on
AfterRaise(next) == next

\* the body of "for conv in conversations" / "for lead in leads" for item vi
ProcessConversation ==
    /\ pc = "conv"
    /\ LET conv == conversations[vi]
           replies == Len(Inbound(conv.msgs))
       IN  \/ \* heyreach: skipped by the incremental filter
              /\ FilteredOut(platform, conv, last_run)
              /\ skipped' = skipped \cup {conv.id}
              /\ UNCHANGED <<all_leads, errors, failed>>
           \/ \* instantly: "if not lead_email: continue"
              /\ platform = "instantly" /\ conv.email = <<>>
              /\ UNCHANGED <<all_leads, errors, failed, skipped>>
           \/ /\ ~FilteredOut(platform, conv, last_run)
              /\ ~(platform = "instantly" /\ conv.email = <<>>)
              /\ \E raises \in BOOLEAN, fetched \in BOOLEAN :
                   LET emails == IF platform = "instantly" /\ (replies = 0 \/ ~fetched)
                                 THEN <<>> ELSE conv.msgs
                       x == IF raises THEN Raised ELSE Extract(platform, conv, emails)
                   IN  /\ (platform = "heyreach" \/ replies = 0) => fetched
                       /\ all_leads' = IF x.kind = "lead"
                                       THEN Append(all_leads, x.lead) ELSE all_leads
                       /\ errors' = IF x.kind = "raise"
                                    THEN Append(errors, [kind |-> "lead", id |-> conv.id])
                                    ELSE errors
                       /\ failed' = IF x.kind = "raise"
                                    THEN failed \cup {conv.id} ELSE failed
              /\ skipped' = skipped
    /\ LET next == IF vi < Len(conversations) THEN "conv" ELSE AfterCampaign(ci)
       IN  /\ vi' = vi + 1
           /\ ci' = IF vi < Len(conversations) THEN ci ELSE ci + 1
           /\ pc' = IF errors' # errors THEN AfterRaise(next) ELSE next
    /\ UNCHANGED <<world, store, stateFile, clock, platform, env, passes,
                   last_run, now, campaigns, conversations, results, with_email,
                   without_email, bi, ni, log, nReads, nWrites, upsertObs,
                   dedupIn, written, owed, history>>

\* "if all_leads: ... else: ... No leads to sync", then "5. Save state"
SkipSaveWhenEmptyMutant(out) == IF out = <<>> THEN "summary" ELSE "upsert"

AfterDedup(out) == IF out = <<>> THEN "save" ELSE "upsert"

\* "Deduplicate leads by email", then "4. Upsert into HubSpot" up to the
\* split of the leads in batch_upsert_contacts
Deduplicate ==
    /\ pc = "dedup"
    /\ dedupIn' = all_leads
    /\ LET out == Dedup(platform, all_leads)
       IN  /\ all_leads' = out
           /\ with_email' = LeadsWithEmail(platform, out)
           /\ without_email' = LeadsWithoutEmail(platform, out)
           /\ pc' = AfterDedup(out)
           /\ log' = IF out = <<>> THEN log \cup {"No leads to sync"} ELSE log
    /\ bi' = 1 /\ ni' = 1
    /\ store0' = store
    /\ UNCHANGED <<world, store, stateFile, clock, platform, env, passes,
                   last_run, now, campaigns, ci, conversations, vi, errors,
                   results, nReads, nWrites, storeReqs, batchLog, failed,
                   written, skipped, owed, history>>

\* "5. Save state": save_last_run(now)
SaveLastRun ==
    /\ pc = "save"
    /\ stateFile' = SavedValue
    /\ nWrites' = nWrites + 1
    /\ owed' = (owed \ written) \cup failed
    /\ pc' = "summary"
    /\ UNCHANGED <<world, store, clock, platform, env, passes, locals, log,
                   nReads, upsertObs, dedupIn, failed, written, skipped, history>>

\* "6. Summary"
Summary ==
    /\ pc = "summary"
    /\ log' = log \cup {"SYNC SUMMARY"}
    /\ pc' = "idle"
    /\ UNCHANGED <<world, store, stateFile, clock, platform, env, passes, locals,
                   nReads, nWrites, upsertObs, dedupIn, failed, written, skipped,
                   owed, history>>

\* the process is terminated from outside
Kill ==
    /\ pc # "idle"
    /\ pc' = "idle"
    /\ log' = log \cup {"killed"}
    /\ UNCHANGED <<world, store, stateFile, clock, platform, env, passes, locals,
                   nReads, nWrites, upsertObs, dedupIn, failed, written, skipped,
                   owed, history>>

\* time passes
Tick ==
    /\ clock < MaxClock
    /\ clock' = clock + 1
    /\ UNCHANGED <<world, store, stateFile, platform, pc, env, passes, locals,
                   log, nReads, nWrites, upsertObs, dedupIn, failed, written,
                   skipped, owed, history>>

\* no summary was logged
NoSummary == [logged |-> FALSE, leads |-> 0, postponed |-> 0]

\* no postponed reply was seen and nothing was posted
NoPostponed == postponed_leads = <<>> /\ slack = <<>> /\ summary = NoSummary

\* no call of the normalizer on its own
NoNormalizer ==
    /\ today = [y |-> 2024, m |-> 1, d |-> 1]
    /\ nin = [msgs |-> <<>>, campaign |-> <<>>]
    /\ npc = "idle" /\ nout = [op |-> "none"]
    /\ sector_cache = <<>> /\ ncalls = 0

\* check_followups is not running and has no contact to look at
NoFollowups ==
    /\ crm = <<>> /\ reminders = <<>>
    /\ fpc = "idle" /\ runs = 0
    /\ fenv = [token |-> TRUE, webhook |-> TRUE]
    /\ contacts = <<>> /\ fi = 0 /\ sent = 0

Init ==
    /\ NoFollowups /\ NoNormalizer /\ NoPostponed
    /\ source \in Worlds
    /\ store = <<>>
    /\ urlUnique \in BOOLEAN
    /\ stateFile = NoTs
    /\ clock = 1
    /\ platform \in Platforms
    /\ pc = "idle" /\ env = "ok" /\ passes = 0
    /\ last_run = NoTs /\ now = 0
    /\ campaigns = <<>> /\ ci = 0
    /\ conversations = <<>> /\ vi = 0
    /\ all_leads = <<>> /\ errors = <<>> /\ results = ZeroResults
    /\ with_email = <<>> /\ without_email = <<>> /\ bi = 0 /\ ni = 0
    /\ log = {} /\ nReads = 0 /\ nWrites = 0 /\ storeReqs = 0
    /\ batchLog = <<>> /\ dedupIn = <<>> /\ store0 = <<>>
    /\ failed = {} /\ written = {} /\ skipped = {} /\ owed = {}
    /\ ckptAtLaunch = NoTs
    /\ prev = [ran |-> FALSE, read |-> FALSE, wrote |-> FALSE, last_run |-> NoTs]

Next ==
    \/ Launch
    \/ ValidateEnv
    \/ LoadLastRun
    \/ GetAllCampaigns
    \/ SaveEmpty
    \/ FetchConversations
    \/ ProcessConversation
    \/ Deduplicate
    \/ UpsertBatch
    \/ CreateContact
    \/ SaveLastRun
    \/ Summary
    \/ Kill
    \/ Tick

Spec == Init /\ [][Next]_vars

(* ------------------------------------------------------------------ *)
(* Properties of the sync pass                                         *)
(* ------------------------------------------------------------------ *)
\* positions of main after load_last_run and before the checkpoint write
AfterLoad == {"campaigns", "campaign", "conv", "dedup", "upsert", "save",
              "save_empty"}

\* the pass returned from main (it was not terminated)
PassReturned == pc = "idle" /\ passes > 0 /\ "killed" \notin log

\* the pass ran to its end: the summary, or the early return on zero campaigns
Completed ==
    /\ PassReturned
    /\ \/ "SYNC SUMMARY" \in log
       \/ "No campaigns found. Nothing to do." \in log

\* C1 (as claimed): a conversation whose extraction raised or whose store write
\* was counted as errored, in a pass that saved the checkpoint, is not skipped
\* by the incremental filter of a later pass: it is processed again.
C1_FailedItemsAreReprocessed == skipped \cap owed = {}

\* C2: while a pass has not written the checkpoint (it was terminated before
\* the write, a credential is missing, or the campaign listing failed), the
\* persisted checkpoint is the one from before the pass; the pass read exactly
\* that value, and after a pass that stopped without writing the next pass
\* reads the same last_run again.
C2_CheckpointKeptOnEarlyStop ==
    /\ nWrites = 0 => stateFile = ckptAtLaunch
    /\ (nReads = 1 /\ nWrites = 0) => last_run = stateFile
    /\ (nReads = 1 /\ prev.read /\ ~prev.wrote) => last_run = prev.last_run

\* C2 witness: the second pass was terminated after it had sent store
\* requests, and the checkpoint of the first pass is still in place.
C2_Witness ==
    /\ pc = "idle" /\ "killed" \in log /\ passes = 2
    /\ storeReqs > 0 /\ nWrites = 0
    /\ stateFile # NoTs /\ stateFile = ckptAtLaunch
    /\ clock > stateFile.t

\* C3: the checkpoint is read once, before the campaigns are fetched, and
\* written at most once, only after the upsert has finished; a completed pass
\* has read once and written once, and the value written is the time captured
\* at the start of the pass.
C3_ReadOnceWrittenOnce ==
    /\ nReads <= 1 /\ nWrites <= 1
    /\ pc \in {"validate", "load"} => (nReads = 0 /\ campaigns = <<>>)
    /\ pc \in AfterLoad => (nReads = 1 /\ nWrites = 0)
    /\ campaigns # <<>> => nReads = 1
    /\ nWrites = 1 =>
         /\ pc \in {"summary", "idle"}
         /\ all_leads = <<>> \/ UpsertFinished(bi, ni)
         /\ stateFile = Iso(now)
    /\ Completed => (nReads = 1 /\ nWrites = 1 /\ stateFile = Iso(now))

\* C3 witness: a completed pass that upserted, finished later than it began.
C3_Witness ==
    /\ Completed /\ storeReqs > 0
    /\ nWrites = 1 /\ stateFile = Iso(now) /\ clock > now

\* C4: a pass that returns after a successful campaign listing with zero
\* campaigns or zero leads has written the checkpoint with the pass start
\* time, logged a nothing-to-do message and no error, and sent no store write.
C4_EmptyPassAdvancesCheckpoint ==
    (PassReturned /\ nReads = 1 /\ "Failed to fetch campaigns" \notin log
        /\ all_leads = <<>>)
    => /\ nWrites = 1 /\ stateFile = Iso(now)
       /\ storeReqs = 0 /\ batchLog = <<>>
       /\ \/ "No campaigns found. Nothing to do." \in log
          \/ "No leads to sync" \in log
       /\ "credential not set" \notin log

\* C4 witness: a pass over campaigns that yielded no lead, after an earlier
\* pass had set a different checkpoint.
C4_Witness ==
    /\ PassReturned /\ campaigns # <<>> /\ all_leads = <<>>
    /\ "No leads to sync" \in log
    /\ ckptAtLaunch # NoTs /\ stateFile # ckptAtLaunch

\* each conversation occurs once in the source and no two conversations
\* without email share a profile URL
SourceConvs ==
    UNION {{<<c, v>> : v \in 1..Len(source[c].convs)} : c \in 1..Len(source)}

DistinctLeadsInSource ==
    \A x \in SourceConvs, y \in SourceConvs :
        x # y => source[x[1]].convs[x[2]].id # source[y[1]].convs[y[2]].id

\* the Contact Key of a store contact: its normalized email, else its profile URL
ContactKeyOf(c) ==
    IF c.key # <<>> THEN [kind |-> "email", email |-> c.key]
    ELSE [kind |-> "url", url |-> c.props.linkedin]

\* C7 (as claimed): over repeated passes on unchanged conversations the store
\* holds at most one contact per Contact Key; a record that exists is never
\* created a second time.
C7_OneContactPerKey ==
    DistinctLeadsInSource =>
        \A i \in 1..Len(store), j \in 1..Len(store) :
            i # j => ContactKeyOf(store[i]) # ContactKeyOf(store[j])

(* ------------------------------------------------------------------ *)
(* batch_upsert_contacts on its own: any list of leads, any store      *)
(* ------------------------------------------------------------------ *)
Tags == <<"L1", "L2", "L3", "L4", "L5", "L6", "L7", "L8">>
Urls == <<"u1", "u2", "u3", "u4", "u5", "u6", "u7", "u8">>

\* the k-th email: k letters, so that the emails of a list differ
KthEmail(k) == [i \in 1..k |-> "a"]

\* the k-th lead of an upsert list, with or without email
UpsertLead(p, k, hasEmail) ==
    [src |-> Tags[k],
     email |-> IF hasEmail THEN KthEmail(k) ELSE <<>>,
     linkedin |-> IF p = "heyreach" THEN Urls[k] ELSE "",
     latest_outbound_date |-> <<>>,
     has_responded |-> "false",
     latest_response_text |-> "",
     latest_response_date |-> <<>>,
     response_count |-> 0]

\* heyreach leads may lack an email; every instantly lead has one
UpsertLists(p) ==
    UNION {{[k \in 1..n |-> UpsertLead(p, k, e[k])] :
              e \in [1..n -> IF p = "heyreach" THEN BOOLEAN ELSE {TRUE}]} :
           n \in 1..MaxUpsert}

\* the contacts of the leads in `have`, in list order
RECURSIVE StoreOf(_, _, _)
StoreOf(leads, have, k) ==
    IF k > Len(leads) THEN <<>>
    ELSE (IF k \in have THEN <<NewContact(leads[k])>> ELSE <<>>)
         \o StoreOf(leads, have, k + 1)

InitUpsert ==
    /\ NoFollowups /\ NoNormalizer /\ NoPostponed
    /\ platform \in Platforms
    /\ urlUnique \in BOOLEAN
    /\ all_leads \in UpsertLists(platform)
    /\ \E have \in SUBSET (1..Len(all_leads)) : store = StoreOf(all_leads, have, 1)
    /\ store0 = store
    /\ with_email = LeadsWithEmail(platform, all_leads)
    /\ without_email = LeadsWithoutEmail(platform, all_leads)
    /\ bi = 1 /\ ni = 1 /\ results = ZeroResults
    /\ pc = "upsert"
    /\ source = <<>> /\ stateFile = NoTs /\ clock = 1
    /\ env = "ok" /\ passes = 1
    /\ last_run = NoTs /\ now = 1
    /\ campaigns = <<>> /\ ci = 1
    /\ conversations = <<>> /\ vi = 1
    /\ errors = <<>>
    /\ log = {} /\ nReads = 1 /\ nWrites = 0 /\ storeReqs = 0
    /\ batchLog = <<>> /\ dedupIn = all_leads
    /\ failed = {} /\ written = {} /\ skipped = {} /\ owed = {}
    /\ ckptAtLaunch = NoTs
    /\ prev = [ran |-> FALSE, read |-> FALSE, wrote |-> FALSE, last_run |-> NoTs]

NextUpsert == UpsertBatch \/ CreateContact

SpecUpsert == InitUpsert /\ [][NextUpsert]_vars

\* batch_upsert_contacts has returned
UpsertReturned == pc = "save"

RECURSIVE SumTo(_, _)
SumTo(f(_), n) == IF n = 0 THEN 0 ELSE f(n) + SumTo(f, n - 1)

\* the records among the first k of a batch that the store did not hold when
\* the upsert began
NewAmong(batch, k) ==
    Cardinality({i \in 1..k : StoreFind(store0, StoreKey(batch[i])) = 0})

\* what the request of batch j adds to the counts, from its own records and
\* its own answer alone
OwnCreated(j) ==
    LET a == batchLog[j].answer
    IN  IF a.kind = "ok" THEN NewAmong(BatchAt(with_email, j), a.k) ELSE 0

OwnUpdated(j) ==
    LET a == batchLog[j].answer
    IN  IF a.kind = "ok" THEN a.k - NewAmong(BatchAt(with_email, j), a.k) ELSE 0

OwnErrors(j) ==
    IF batchLog[j].answer.kind = "ok" THEN 0 ELSE Len(BatchAt(with_email, j))

\* the individual creates follow the batches in the log
CreatesLogged(kinds) ==
    Cardinality({j \in 1..Len(batchLog) :
        j > NumBatches(Len(with_email)) /\ batchLog[j].answer.kind \in kinds})

\* C5: when batch_upsert_contacts returns, every batch was sent, in order; a
\* failed batch request adds exactly its number of records to the errors and
\* nothing else; every other batch adds what its own answer says, whatever
\* happened to the batches before it.
C5_BatchFailureIsolated ==
    UpsertReturned =>
        LET nb == NumBatches(Len(with_email))
        IN  /\ Len(batchLog) = nb + Len(without_email)
            /\ \A j \in 1..nb : batchLog[j].batch = BatchAt(with_email, j)
            /\ results.errors = SumTo(OwnErrors, nb)
                                + CreatesLogged({"http_error", "exception"})
            /\ results.created = SumTo(OwnCreated, nb) + CreatesLogged({"created"})
            /\ results.updated = SumTo(OwnUpdated, nb) + CreatesLogged({"conflict"})

\* C5 witness: three batches, the second failed, the first created its two
\* records and the third updated its record.
C5_Witness ==
    /\ UpsertReturned
    /\ NumBatches(Len(with_email)) = 3
    /\ batchLog[1].answer = [kind |-> "ok", k |-> BatchSize]
    /\ batchLog[2].answer.kind = "http_error"
    /\ batchLog[3].answer.kind = "ok" /\ batchLog[3].answer.k = Len(batchLog[3].batch)
    /\ batchLog[1].created = BatchSize
    /\ batchLog[3].updated = Len(batchLog[3].batch)
    /\ results = [created |-> BatchSize, updated |-> Len(batchLog[3].batch),
                  errors |-> BatchSize]

\* C6 (as claimed): when batch_upsert_contacts returns, created + updated +
\* errors equals the number of records passed in.
C6_EveryRecordCounted ==
    UpsertReturned =>
        results.created + results.updated + results.errors = Len(all_leads)

(* ------------------------------------------------------------------ *)
(* The deduplication on its own: any list of lead records              *)
(* ------------------------------------------------------------------ *)
\* has_responded with latest_response_date, as extract_lead_data pairs them
ResponseStates ==
    {[has_responded |-> "false", latest_response_date |-> <<>>],
     [has_responded |-> "true", latest_response_date |-> <<>>],
     [has_responded |-> "true", latest_response_date |-> <<9>>],
     [has_responded |-> "true", latest_response_date |-> <<1, 0>>]}

DedupLead(email, url, r) ==
    [src |-> "x", email |-> email, linkedin |-> url,
     latest_outbound_date |-> <<>>,
     has_responded |-> r.has_responded,
     latest_response_text |-> "",
     latest_response_date |-> r.latest_response_date,
     response_count |-> IF r.has_responded = "true" THEN 1 ELSE 0]

\* heyreach records always carry a profile URL, instantly records an email
LeadCatalogue(p) ==
    IF p = "heyreach"
    THEN {DedupLead(e, "p1", r) : e \in {<<"a">>, <<"A", " ">>, <<"b">>},
                                  r \in ResponseStates}
         \cup {DedupLead(e, u, r) : e \in {<<>>, <<" ">>}, u \in {"p1", "p2"},
                                    r \in ResponseStates}
    ELSE {DedupLead(e, "", r) : e \in {<<"a">>, <<"A", " ">>, <<"b">>, <<" ">>},
                                r \in ResponseStates}

InitDedup ==
    /\ NoFollowups /\ NoNormalizer /\ NoPostponed
    /\ platform \in Platforms
    /\ \E n \in 0..MaxLeads : all_leads \in [1..n -> LeadCatalogue(platform)]
    /\ pc = "dedup"
    /\ urlUnique = FALSE
    /\ store = <<>> /\ store0 = <<>>
    /\ with_email = <<>> /\ without_email = <<>>
    /\ bi = 0 /\ ni = 0 /\ results = ZeroResults
    /\ source = <<>> /\ stateFile = NoTs /\ clock = 1
    /\ env = "ok" /\ passes = 1
    /\ last_run = NoTs /\ now = 1
    /\ campaigns = <<>> /\ ci = 1
    /\ conversations = <<>> /\ vi = 1
    /\ errors = <<>>
    /\ log = {} /\ nReads = 1 /\ nWrites = 0 /\ storeReqs = 0
    /\ batchLog = <<>> /\ dedupIn = <<>>
    /\ failed = {} /\ written = {} /\ skipped = {} /\ owed = {}
    /\ ckptAtLaunch = NoTs
    /\ prev = [ran |-> FALSE, read |-> FALSE, wrote |-> FALSE, last_run |-> NoTs]

NextDedup == Deduplicate

SpecDedup == InitDedup /\ [][NextDedup]_vars

\* the deduplication has run: all_leads is what is handed to the upsert
Deduplicated == pc \in {"upsert", "save"}

\* the Contact Key of a lead record as the specification defines it: the
\* lower-cased, trimmed email if there is one, otherwise the profile URL
NormEmail(l) == Lower(Strip(l.email))

ContactKey(l) ==
    IF NormEmail(l) # <<>> THEN [kind |-> "email", email |-> NormEmail(l)]
    ELSE IF l.linkedin # "" THEN [kind |-> "url", url |-> l.linkedin]
    ELSE [kind |-> "none"]

Range(q) == {q[i] : i \in 1..Len(q)}

Reverse(q) == [i \in 1..Len(q) |-> q[Len(q) + 1 - i]]

\* C9: for two records with one Contact Key of which exactly one has
\* responded, the deduplication keeps the record that has responded, in either
\* order of the two (both orders are inputs of the specification); when the
\* key is an email the responded record is the only survivor.
C9_RespondedSurvivesEitherOrder ==
    (/\ Deduplicated
     /\ Len(dedupIn) = 2
     /\ ContactKey(dedupIn[1]) = ContactKey(dedupIn[2])
     /\ ContactKey(dedupIn[1]).kind # "none"
     /\ (dedupIn[1].has_responded = "true") # (dedupIn[2].has_responded = "true"))
    => LET r == IF dedupIn[1].has_responded = "true" THEN dedupIn[1] ELSE dedupIn[2]
       IN  /\ r \in Range(all_leads)
           /\ NormEmail(r) # <<>> => all_leads = <<r>>
           /\ Range(Dedup(platform, Reverse(dedupIn))) = Range(all_leads)

\* C9 witness: the responded record came second and replaced the first, whose
\* email was written differently.
C9_Witness ==
    /\ Deduplicated
    /\ Len(dedupIn) = 2
    /\ dedupIn[1].email = <<"a">> /\ dedupIn[1].has_responded = "false"
    /\ dedupIn[2].email = <<"A", " ">> /\ dedupIn[2].has_responded = "true"
    /\ all_leads = <<dedupIn[2]>>

WithoutEmailKey(q) == SelectSeq(q, LAMBDA l : NormEmail(l) = <<>>)

syncVars == <<source, urlUnique, store, stateFile, platform, pc, env, passes,
              locals, log, nReads, nWrites, upsertObs, dedupIn, failed, written,
              skipped, owed, history, normalizer, postponed>>

\* followup_date is stored as the midnight of a day
Midnights == {d * DayLen : d \in 0..(MaxClock \div DayLen)}

\* today_ms: the midnight of the current UTC day
TodayMs == (clock \div DayLen) * DayLen

FollowupEnvs == [token : BOOLEAN, webhook : BOOLEAN]

\* is_postponed EQ "true" AND followup_date LTE today_ms, in id order
DueContacts ==
    SelectSeq([i \in 1..Len(crm) |-> i],
              LAMBDA id : crm[id].is_postponed = "true"
                          /\ crm[id].followup_date <= TodayMs)

\* python check_followups.py
FollowupLaunch ==
    /\ fpc = "idle"
    /\ runs < MaxRuns
    /\ runs' = runs + 1
    /\ fenv' \in FollowupEnvs
    /\ fpc' = "token"
    /\ contacts' = <<>> /\ fi' = 0 /\ sent' = 0
    /\ UNCHANGED <<syncVars, clock, crm, reminders>>

\* "HUBSPOT_ACCESS_TOKEN not set": return
CheckToken ==
    /\ fpc = "token"
    /\ fpc' = IF fenv.token THEN "search" ELSE "idle"
    /\ UNCHANGED <<syncVars, clock, crm, reminders, fenv, runs, contacts, fi, sent>>

\* search_postponed_contacts; raise_for_status is not caught and ends the run
SearchPostponedContacts ==
    /\ fpc = "search"
    /\ \/ /\ fpc' = "idle"
          /\ UNCHANGED <<contacts, fi>>
       \/ /\ contacts' = DueContacts
          /\ fi' = 1
          /\ fpc' = IF DueContacts = <<>> THEN "idle" ELSE "send"
    /\ UNCHANGED <<syncVars, clock, crm, reminders, fenv, runs, sent>>

\* whether the webhook received the message
SlackAnswers == IF fenv.webhook THEN {"delivered", "failed"} ELSE {"skipped"}

\* send_followup_slack(contact): a failure is logged and swallowed
SendFollowupSlack ==
    /\ fpc = "send"
    /\ \E a \in SlackAnswers :
          reminders' = IF a = "delivered"
                       THEN [reminders EXCEPT ![contacts[fi]] = @ + 1]
                       ELSE reminders
    /\ fpc' = "clear"
    /\ UNCHANGED <<syncVars, clock, crm, fenv, runs, contacts, fi, sent>>

\* the flag of a contact after a PATCH that failed
FlagAfterFailedPatch(flag) == flag

\* clear_postponed_flag(contact["id"]), then sent += 1 and the next contact
ClearPostponedFlag ==
    /\ fpc = "clear"
    /\ \E ok \in BOOLEAN :
          crm' = [crm EXCEPT ![contacts[fi]].is_postponed =
                      IF ok THEN "false" ELSE FlagAfterFailedPatch(@)]
    /\ sent' = sent + 1
    /\ fi' = fi + 1
    /\ fpc' = IF fi < Len(contacts) THEN "send" ELSE "idle"
    /\ UNCHANGED <<syncVars, clock, reminders, fenv, runs, contacts>>

\* the process is terminated from outside
FollowupKill ==
    /\ fpc # "idle"
    /\ fpc' = "idle"
    /\ UNCHANGED <<syncVars, clock, crm, reminders, fenv, runs, contacts, fi, sent>>

InitFollowups ==
    /\ NoNormalizer /\ NoPostponed
    /\ \E n \in 1..MaxContacts :
          /\ crm \in [1..n -> [is_postponed : {"true", "false"},
                               followup_date : Midnights]]
          /\ reminders = [i \in 1..n |-> 0]
    /\ fpc = "idle" /\ runs = 0
    /\ fenv = [token |-> TRUE, webhook |-> TRUE]
    /\ contacts = <<>> /\ fi = 0 /\ sent = 0
    /\ source = <<>> /\ store = <<>> /\ urlUnique = FALSE
    /\ stateFile = NoTs
    /\ clock = 1
    /\ platform = "heyreach"
    /\ pc = "idle" /\ env = "ok" /\ passes = 0
    /\ last_run = NoTs /\ now = 0
    /\ campaigns = <<>> /\ ci = 0
    /\ conversations = <<>> /\ vi = 0
    /\ all_leads = <<>> /\ errors = <<>> /\ results = ZeroResults
    /\ with_email = <<>> /\ without_email = <<>> /\ bi = 0 /\ ni = 0
    /\ log = {} /\ nReads = 0 /\ nWrites = 0 /\ storeReqs = 0
    /\ batchLog = <<>> /\ dedupIn = <<>> /\ store0 = <<>>
    /\ failed = {} /\ written = {} /\ skipped = {} /\ owed = {}
    /\ ckptAtLaunch = NoTs
    /\ prev = [ran |-> FALSE, read |-> FALSE, wrote |-> FALSE, last_run |-> NoTs]

NextFollowups ==
    \/ FollowupLaunch
    \/ CheckToken
    \/ SearchPostponedContacts
    \/ SendFollowupSlack
    \/ ClearPostponedFlag
    \/ FollowupKill
    \/ Tick

SpecFollowups == InitFollowups /\ [][NextFollowups]_vars

\* C8 (as claimed): across repeated runs of check_followups no contact gets a
\* second reminder, and a contact whose reminder was delivered by a run that
\* went on to its end has is_postponed = "false" in the store.
C8_NeverNotifiedTwice ==
    \A id \in 1..Len(crm) :
        /\ reminders[id] <= 1
        /\ (reminders[id] > 0 /\ fpc = "idle") => crm[id].is_postponed = "false"

(* ------------------------------------------------------------------ *)
(* Failures of the source and of the normalizer in a sync pass         *)
(* ------------------------------------------------------------------ *)
\* the pass returned before its end (without the checkpoint write and summary)
ReturnedEarly == PassReturned /\ ~Completed

CampaignErrors == SelectSeq(errors, LAMBDA e : e.kind = "campaign")
LeadErrors == SelectSeq(errors, LAMBDA e : e.kind = "lead")

\* C19 (as claimed): only a missing credential ends a pass early; a failed
\* campaign listing does not.
C19_OnlyConfigurationStopsPass ==
    ReturnedEarly => "credential not set" \in log

\* C19 (amended): a pass ends early only for a missing credential or a failed
\* campaign listing. The missing credential ends it before any request was
\* sent; the failed listing ends it without store request, checkpoint write
\* or summary. A failed fetch of one campaign's conversations is recorded as
\* one error, and the pass goes on to the checkpoint write and the summary.
C19_EarlyStopOnCredentialOrListing ==
    /\ ReturnedEarly =>
          \/ "credential not set" \in log
          \/ "Failed to fetch campaigns" \in log
    /\ (pc = "idle" /\ "credential not set" \in log) =>
          /\ nReads = 0 /\ nWrites = 0 /\ storeReqs = 0
          /\ campaigns = <<>> /\ errors = <<>>
          /\ "Failed to fetch campaigns" \notin log
    /\ (pc = "idle" /\ "Failed to fetch campaigns" \in log) =>
          /\ nWrites = 0 /\ storeReqs = 0 /\ campaigns = <<>>
          /\ "SYNC SUMMARY" \notin log
    /\ (PassReturned /\ CampaignErrors # <<>>) =>
          /\ Completed /\ nWrites = 1 /\ "SYNC SUMMARY" \in log
          /\ ci = Len(campaigns) + 1

\* C19 witness: the conversations of the first campaign could not be fetched,
\* the second campaign was synced to the store and the pass completed.
C19_Witness ==
    /\ Completed
    /\ Len(campaigns) = 2
    /\ CampaignErrors = <<[kind |-> "campaign", id |-> 1]>>
    /\ storeReqs > 0 /\ nWrites = 1

\* C20: a failure while normalizing one conversation is recorded as one error
\* and gives no lead record; the loop goes on with the next conversation or
\* campaign exactly as after a success, and a pass that returns after such a
\* failure has sent what it had to the store, written the checkpoint and
\* logged the summary.
C20_NormalizeFailureContained ==
    /\ [][(pc = "conv" /\ errors' # errors) =>
            /\ errors' = Append(errors, [kind |-> "lead", id |-> conversations[vi].id])
            /\ all_leads' = all_leads
            /\ vi' = vi + 1
            /\ IF vi < Len(conversations)
               THEN pc' = "conv" /\ ci' = ci
               ELSE ci' = ci + 1
                    /\ pc' = (IF ci < Len(campaigns) THEN "campaign" ELSE "dedup")]_vars
    /\ []((PassReturned /\ LeadErrors # <<>>) =>
            /\ Completed /\ nWrites = 1 /\ "SYNC SUMMARY" \in log
            /\ ci = Len(campaigns) + 1
            /\ all_leads = <<>> \/ UpsertFinished(bi, ni))

\* C20 witness: the first conversation of a campaign failed, the second gave
\* a lead that was sent to the store, and the pass completed.
C20_Witness ==
    /\ Completed
    /\ LeadErrors # <<>> /\ LeadErrors[1].id = "A"
    /\ Len(all_leads) = 1 /\ all_leads[1].src = "B"
    /\ storeReqs > 0 /\ nWrites = 1

(* ------------------------------------------------------------------ *)
(* Records without a Contact Key in the deduplication                  *)
(* ------------------------------------------------------------------ *)
\* the records of q that have no Contact Key, and those that have one
Keyless(q) == SelectSeq(q, LAMBDA l : ContactKey(l).kind = "none")
Keyed(q) == SelectSeq(q, LAMBDA l : ContactKey(l).kind # "none")

\* C11 (as claimed): the records without a Contact Key are in the output of
\* the deduplication as they were in its input, each once, none dropped.
C11_KeylessPassThrough ==
    Deduplicated => Keyless(all_leads) = Keyless(dedupIn)

\* C11 (amended): a record without a Contact Key is never merged with another
\* record: the other records come out as if it had not been there. heyreach
\* hands such a record on unchanged; instantly drops it.
C11_KeylessNeverMerged ==
    Deduplicated =>
        /\ Keyed(all_leads) = Dedup(platform, Keyed(dedupIn))
        /\ Keyless(all_leads) =
               IF platform = "heyreach" THEN Keyless(dedupIn) ELSE <<>>

\* C11 witness: instantly, a record whose email is blank between two records
\* of one email: the two are merged and the blank one is gone.
C11_Witness ==
    /\ Deduplicated /\ platform = "instantly"
    /\ Len(dedupIn) = 3
    /\ dedupIn[1].email = <<"a">> /\ dedupIn[1].has_responded = "false"
    /\ dedupIn[2].email = <<" ">> /\ dedupIn[2].has_responded = "true"
    /\ dedupIn[3].email = <<"A", " ">> /\ dedupIn[3].has_responded = "true"
    /\ all_leads = <<dedupIn[3]>>

(* ------------------------------------------------------------------ *)
(* Texts: a message body or a campaign name is a sequence of characters *)
(* ------------------------------------------------------------------ *)
\* "phrase in text"
Contains(text, phrase) ==
    \/ phrase = <<>>
    \/ \E i \in 1..(Len(text) - Len(phrase) + 1) :
          /\ text[i] = phrase[1]
          /\ SubSeq(text, i, i + Len(phrase) - 1) = phrase

\* "for phrase in PHRASES: if phrase in text"
AnyPhrase(phrases, text) == \E k \in 1..Len(phrases) : Contains(text, phrases[k])

OPT_OUT_PHRASES == <<
    <<"n", "o", "t", " ", "i", "n", "t", "e", "r", "e", "s", "t", "e", "d">>,
    <<"r", "e", "m", "o", "v", "e", " ", "m", "e">>,
    <<"u", "n", "s", "u", "b", "s", "c", "r", "i", "b", "e">>,
    <<"s", "t", "o", "p", " ", "c", "o", "n", "t", "a", "c", "t", "i", "n", "g">>,
    <<"t", "a", "k", "e", " ", "m", "e", " ", "o", "f", "f">>,
    <<"o", "p", "t", " ", "o", "u", "t">>,
    <<"d", "o", "n", "'", "t", " ", "c", "o", "n", "t", "a", "c", "t">>,
    <<"d", "o", " ", "n", "o", "t", " ", "c", "o", "n", "t", "a", "c", "t">>,
    <<"l", "e", "a", "v", "e", " ", "m", "e", " ", "a", "l", "o", "n", "e">>,
    <<"n", "o", " ", "t", "h", "a", "n", "k", "s">>,
    <<"n", "o", " ", "t", "h", "a", "n", "k", " ", "y", "o", "u">>,
    <<"p", "l", "e", "a", "s", "e", " ", "s", "t", "o", "p">>,
    <<"n", "o", "t", " ", "f", "o", "r", " ", "m", "e">>,
    <<"p", "a", "s", "s", " ", "o", "n", " ", "t", "h", "i", "s">>,
    <<"r", "e", "m", "o", "v", "e", " ", "m", "y", " ", "n", "a", "m", "e">>,
    <<"d", "o", "n", "'", "t", " ", "m", "e", "s", "s", "a", "g", "e">>,
    <<"d", "o", " ", "n", "o", "t", " ", "m", "e", "s", "s", "a", "g", "e">>,
    <<"s", "t", "o", "p", " ", "m", "e", "s", "s", "a", "g", "i", "n", "g">>,
    <<"n", "e", "v", "e", "r", " ", "c", "o", "n", "t", "a", "c", "t">> >>

POSTPONE_PHRASES == <<
    <<"n", "o", "t", " ", "r", "i", "g", "h", "t", " ", "n", "o", "w">>,
    <<"r", "e", "a", "c", "h", " ", "o", "u", "t", " ", "l", "a", "t", "e", "r">>,
    <<"m", "a", "y", "b", "e", " ", "l", "a", "t", "e", "r">>,
    <<"n", "o", "t", " ", "a", " ", "g", "o", "o", "d", " ", "t", "i", "m", "e">>,
    <<"b", "u", "s", "y", " ", "r", "i", "g", "h", "t", " ", "n", "o", "w">>,
    <<"n", "e", "x", "t", " ", "q", "u", "a", "r", "t", "e", "r">>,
    <<"n", "e", "x", "t", " ", "m", "o", "n", "t", "h">>,
    <<"n", "e", "x", "t", " ", "y", "e", "a", "r">>,
    <<"c", "i", "r", "c", "l", "e", " ", "b", "a", "c", "k">>,
    <<"c", "h", "e", "c", "k", " ", "b", "a", "c", "k">>,
    <<"g", "e", "t", " ", "b", "a", "c", "k", " ", "t", "o", " ", "m", "e">>,
    <<"f", "o", "l", "l", "o", "w", " ", "u", "p", " ", "l", "a", "t", "e", "r">>,
    <<"t", "o", "u", "c", "h", " ", "b", "a", "s", "e", " ", "l", "a", "t", "e", "r">>,
    <<"n", "o", "t", " ", "t", "h", "e", " ", "r", "i", "g", "h", "t", " ", "t", "i", "m", "e">>,
    <<"r", "e", "v", "i", "s", "i", "t">>,
    <<"d", "o", "w", "n", " ", "t", "h", "e", " ", "r", "o", "a", "d">>,
    <<"i", "n", " ", "a", " ", "f", "e", "w", " ", "m", "o", "n", "t", "h", "s">>,
    <<"i", "n", " ", "a", " ", "f", "e", "w", " ", "w", "e", "e", "k", "s">>,
    <<"a", "f", "t", "e", "r", " ", "t", "h", "e", " ", "h", "o", "l", "i", "d", "a", "y", "s">>,
    <<"e", "n", "d", " ", "o", "f", " ", "y", "e", "a", "r">>,
    <<"b", "e", "g", "i", "n", "n", "i", "n", "g", " ", "o", "f", " ", "n", "e", "x", "t">>,
    <<"t", "r", "y", " ", "a", "g", "a", "i", "n">>,
    <<"r", "e", "c", "o", "n", "n", "e", "c", "t", " ", "l", "a", "t", "e", "r">> >>

POSITIVE_PHRASES == <<
    <<"s", "o", "u", "n", "d", "s", " ", "g", "r", "e", "a", "t">>,
    <<"l", "o", "v", "e", " ", "t", "o">>,
    <<"w", "o", "u", "l", "d", " ", "l", "o", "v", "e">>,
    <<"i", "n", "t", "e", "r", "e", "s", "t", "e", "d">>,
    <<"l", "e", "t", "'", "s", " ", "c", "h", "a", "t">>,
    <<"l", "e", "t", "'", "s", " ", "c", "o", "n", "n", "e", "c", "t">>,
    <<"h", "a", "p", "p", "y", " ", "t", "o">>,
    <<"s", "u", "r", "e">>,
    <<"y", "e", "s">>,
    <<"a", "b", "s", "o", "l", "u", "t", "e", "l", "y">>,
    <<"s", "o", "u", "n", "d", "s", " ", "g", "o", "o", "d">>,
    <<"l", "e", "t", "'", "s", " ", "d", "o", " ", "i", "t">>,
    <<"l", "o", "o", "k", "i", "n", "g", " ", "f", "o", "r", "w", "a", "r", "d">>,
    <<"b", "o", "o", "k", " ", "a", " ", "t", "i", "m", "e">>,
    <<"s", "c", "h", "e", "d", "u", "l", "e", " ", "a", " ", "c", "a", "l", "l">>,
    <<"s", "e", "t", " ", "u", "p", " ", "a", " ", "m", "e", "e", "t", "i", "n", "g">>,
    <<"t", "e", "l", "l", " ", "m", "e", " ", "m", "o", "r", "e">>,
    <<"s", "e", "n", "d", " ", "m", "e", " ", "i", "n", "f", "o">>,
    <<"i", "'", "d", " ", "l", "i", "k", "e", " ", "t", "o", " ", "l", "e", "a", "r", "n">>,
    <<"s", "i", "g", "n", " ", "m", "e", " ", "u", "p">>,
    <<"c", "o", "u", "n", "t", " ", "m", "e", " ", "i", "n">> >>

ENTHUSIASTIC_PHRASES == <<
    <<"a", "m", "a", "z", "i", "n", "g">>,
    <<"f", "a", "n", "t", "a", "s", "t", "i", "c">>,
    <<"p", "e", "r", "f", "e", "c", "t", " ", "t", "i", "m", "i", "n", "g">>,
    <<"e", "x", "a", "c", "t", "l", "y", " ", "w", "h", "a", "t">>,
    <<"b", "e", "e", "n", " ", "l", "o", "o", "k", "i", "n", "g", " ", "f", "o", "r">>,
    <<"l", "o", "v", "e", " ", "t", "h", "i", "s">>,
    <<"t", "h", "i", "s", " ", "i", "s", " ", "g", "r", "e", "a", "t">>,
    <<"a", "w", "e", "s", "o", "m", "e">>,
    <<"w", "o", "n", "d", "e", "r", "f", "u", "l">>,
    <<"e", "x", "c", "e", "l", "l", "e", "n", "t">>,
    <<"t", "h", "r", "i", "l", "l", "e", "d">> >>

NEGATIVE_PHRASES == <<
    <<"n", "o", "t", " ", "r", "e", "l", "e", "v", "a", "n", "t">>,
    <<"w", "r", "o", "n", "g", " ", "p", "e", "r", "s", "o", "n">>,
    <<"d", "o", "n", "'", "t", " ", "n", "e", "e", "d">>,
    <<"d", "o", " ", "n", "o", "t", " ", "n", "e", "e", "d">>,
    <<"a", "l", "r", "e", "a", "d", "y", " ", "h", "a", "v", "e">>,
    <<"n", "o", "t", " ", "a", " ", "f", "i", "t">>,
    <<"n", "o", " ", "n", "e", "e", "d">>,
    <<"w", "e", "'", "r", "e", " ", "g", "o", "o", "d">>,
    <<"w", "e", " ", "a", "l", "r", "e", "a", "d", "y", " ", "u", "s", "e">>,
    <<"n", "o", "t", " ", "l", "o", "o", "k", "i", "n", "g">>,
    <<"d", "o", "e", "s", "n", "'", "t", " ", "a", "p", "p", "l", "y">>,
    <<"s", "p", "a", "m">> >>

(* ------------------------------------------------------------------ *)
(* keyword_classify_sentiment                                          *)
(* ------------------------------------------------------------------ *)
\* inbound_text += " " + body, over the inbound messages
RECURSIVE InboundText(_)
InboundText(msgs) ==
    IF msgs = <<>> THEN <<>>
    ELSE IF Head(msgs).sender # "ME"
    THEN <<" ">> \o Head(msgs).body \o InboundText(Tail(msgs))
    ELSE InboundText(Tail(msgs))

\* "if taken_off == 'yes': ... elif is_postponed == 'true': ... else:"
Precedence(off, post) ==
    IF off = "yes" THEN "Negative" ELSE IF post = "true" THEN "Postponed" ELSE "tone"

\* the else branch: enthusiastic, then positive, then negative phrases
ToneOf(text) ==
    IF AnyPhrase(ENTHUSIASTIC_PHRASES, text) THEN "Enthusiastic"
    ELSE IF AnyPhrase(POSITIVE_PHRASES, text) THEN "Positive"
    ELSE IF AnyPhrase(NEGATIVE_PHRASES, text) THEN "Negative"
    ELSE "Neutral"

\* an empty inbound text that is classified like any other
ClassifyEmptyMutant(text) == FALSE

\* "if not inbound_lower"
NoInbound(text) == text = <<>>

KeywordClassifySentiment(msgs) ==
    LET inbound_lower == Strip(Lower(InboundText(msgs)))
        taken_off == IF AnyPhrase(OPT_OUT_PHRASES, inbound_lower) THEN "yes" ELSE "no"
        is_postponed == IF AnyPhrase(POSTPONE_PHRASES, inbound_lower)
                        THEN "true" ELSE "false"
        p == Precedence(taken_off, is_postponed)
    IN  IF NoInbound(inbound_lower)
        THEN [reply_sentiment |-> "Not Yet Responded", taken_off_list |-> "no",
              is_postponed |-> "false"]
        ELSE [reply_sentiment |-> IF p = "tone" THEN ToneOf(inbound_lower) ELSE p,
              taken_off_list |-> taken_off,
              is_postponed |-> is_postponed]

(* ------------------------------------------------------------------ *)
(* Sector classification (keyword_classify_sector, classify_sector)    *)
(* ------------------------------------------------------------------ *)
\* a text written out
Tech == <<"T", "e", "c", "h">>
Outreach == <<"O", "u", "t", "r", "e", "a", "c", "h">>
OtherLower == <<"o", "t", "h", "e", "r">>

\* (keyword, sector_name), in the order of the table
SECTOR_PATTERNS == <<
    <<<<"w", "e", "b", "i", "n", "a", "r", " ", "o", "u", "t", "r", "e", "a", "c", "h">>,
      <<"W", "e", "b", "i", "n", "a", "r", " ", "O", "u", "t", "r", "e", "a", "c", "h">>>>,
    <<<<"w", "e", "b", "i", "n", "a", "r">>,
      <<"W", "e", "b", "i", "n", "a", "r">>>>,
    <<<<"c", "o", "n", "f", "e", "r", "e", "n", "c", "e">>,
      <<"C", "o", "n", "f", "e", "r", "e", "n", "c", "e", " ", "O", "u", "t", "r", "e", "a", "c", "h">>>>,
    <<<<"s", "u", "m", "m", "i", "t">>,
      <<"C", "o", "n", "f", "e", "r", "e", "n", "c", "e", " ", "O", "u", "t", "r", "e", "a", "c", "h">>>>,
    <<<<"e", "v", "e", "n", "t">>,
      <<"C", "o", "n", "f", "e", "r", "e", "n", "c", "e", " ", "O", "u", "t", "r", "e", "a", "c", "h">>>>,
    <<<<"p", "r", " ", "f", "i", "r", "m">>,
      <<"P", "R", "/", "C", "o", "m", "m", "s">>>>,
    <<<<"p", "r", " ">>,
      <<"P", "R", "/", "C", "o", "m", "m", "s">>>>,
    <<<<"c", "o", "m", "m", "s">>,
      <<"P", "R", "/", "C", "o", "m", "m", "s">>>>,
    <<<<"c", "o", "m", "m", "u", "n", "i", "c", "a", "t", "i", "o", "n", "s">>,
      <<"P", "R", "/", "C", "o", "m", "m", "s">>>>,
    <<<<"p", "u", "b", "l", "i", "c", " ", "r", "e", "l", "a", "t", "i", "o", "n", "s">>,
      <<"P", "R", "/", "C", "o", "m", "m", "s">>>>,
    <<<<"p", "o", "l", "i", "t", "i", "c", "a", "l">>,
      <<"P", "o", "l", "i", "t", "i", "c", "a", "l">>>>,
    <<<<"g", "o", "v", "t">>,
      <<"P", "o", "l", "i", "t", "i", "c", "a", "l">>>>,
    <<<<"g", "o", "v", "e", "r", "n", "m", "e", "n", "t">>,
      <<"P", "o", "l", "i", "t", "i", "c", "a", "l">>>>,
    <<<<"p", "u", "b", "l", "i", "c", " ", "s", "e", "c", "t", "o", "r">>,
      <<"P", "o", "l", "i", "t", "i", "c", "a", "l">>>>,
    <<<<"h", "e", "a", "l", "t", "h", "c", "a", "r", "e">>,
      <<"H", "e", "a", "l", "t", "h", "c", "a", "r", "e">>>>,
    <<<<"h", "e", "a", "l", "t", "h">>,
      <<"H", "e", "a", "l", "t", "h", "c", "a", "r", "e">>>>,
    <<<<"h", "o", "s", "p", "i", "t", "a", "l">>,
      <<"H", "e", "a", "l", "t", "h", "c", "a", "r", "e">>>>,
    <<<<"m", "e", "d", "i", "c", "a", "l">>,
      <<"H", "e", "a", "l", "t", "h", "c", "a", "r", "e">>>>,
    <<<<"p", "h", "a", "r", "m", "a">>,
      <<"H", "e", "a", "l", "t", "h", "c", "a", "r", "e">>>>,
    <<<<"b", "i", "o", "t", "e", "c", "h">>,
      <<"H", "e", "a", "l", "t", "h", "c", "a", "r", "e">>>>,
    <<<<"f", "i", "n", "a", "n", "c", "e">>,
      <<"F", "i", "n", "a", "n", "c", "e">>>>,
    <<<<"f", "i", "n", "a", "n", "c", "i", "a", "l">>,
      <<"F", "i", "n", "a", "n", "c", "e">>>>,
    <<<<"b", "a", "n", "k", "i", "n", "g">>,
      <<"F", "i", "n", "a", "n", "c", "e">>>>,
    <<<<"i", "n", "s", "u", "r", "a", "n", "c", "e">>,
      <<"F", "i", "n", "a", "n", "c", "e">>>>,
    <<<<"f", "i", "n", "t", "e", "c", "h">>,
      <<"F", "i", "n", "a", "n", "c", "e">>>>,
    <<<<"a", "c", "c", "o", "u", "n", "t", "i", "n", "g">>,
      <<"F", "i", "n", "a", "n", "c", "e">>>>,
    <<<<"c", "p", "a">>,
      <<"F", "i", "n", "a", "n", "c", "e">>>>,
    <<<<"s", "a", "a", "s">>,
      <<"T", "e", "c", "h">>>>,
    <<<<"s", "o", "f", "t", "w", "a", "r", "e">>,
      <<"T", "e", "c", "h">>>>,
    <<<<"t", "e", "c", "h">>,
      <<"T", "e", "c", "h">>>>,
    <<<<"e", "n", "g", " ">>,
      <<"T", "e", "c", "h">>>>,
    <<<<"e", "n", "g", "i", "n", "e", "e", "r", "i", "n", "g">>,
      <<"T", "e", "c", "h">>>>,
    <<<<"a", "i", " ">>,
      <<"T", "e", "c", "h">>>>,
    <<<<"c", "y", "b", "e", "r">>,
      <<"T", "e", "c", "h">>>>,
    <<<<"s", "t", "a", "r", "t", "u", "p">>,
      <<"T", "e", "c", "h">>>> >>

\* the first row of the table whose keyword is in the name, 0 if there is none
RECURSIVE FirstPatternFrom(_, _)
FirstPatternFrom(name_lower, k) ==
    IF k > Len(SECTOR_PATTERNS) THEN 0
    ELSE IF Contains(name_lower, SECTOR_PATTERNS[k][1]) THEN k
    ELSE FirstPatternFrom(name_lower, k + 1)

FirstPattern(name_lower) == FirstPatternFrom(name_lower, 1)

\* keyword_classify_sector: heyreach falls back to "Tech", instantly to "Outreach"
KeywordClassifySector(p, campaign_name) ==
    LET k == FirstPattern(Lower(campaign_name))
    IN  IF k # 0 THEN SECTOR_PATTERNS[k][2]
        ELSE IF p = "heyreach" THEN Tech ELSE Outreach

\* openai_classify_sector gives None (no client, or the request failed) or the
\* stripped text of the answer, whatever it is
NoSector == [ok |-> FALSE, text |-> <<>>]
SectorAnswer(text) == [ok |-> TRUE, text |-> Strip(text)]

\* a check for "Other" that never finds it
NeverOtherMutant(sector) == FALSE

\* sector.lower() == "other"
IsOther(sector) == Lower(sector) = OtherLower

\* classify_sector(campaign_name, cache) when the adapter answers ai:
\* the sector returned and the cache afterwards
ClassifySector(p, campaign_name, cache, ai) ==
    IF campaign_name \in DOMAIN cache
    THEN [sector |-> cache[campaign_name], cache |-> cache]
    ELSE LET kw == KeywordClassifySector(p, campaign_name)
             s1 == IF ai.ok /\ ai.text # <<>> THEN ai.text ELSE kw
             s2 == IF IsOther(s1)
                   THEN IF IsOther(kw) THEN Outreach ELSE kw
                   ELSE s1
         IN  [sector |-> s2,
              cache |-> [n \in DOMAIN cache \cup {campaign_name} |->
                            IF n = campaign_name THEN s2 ELSE cache[n]]]

(* ------------------------------------------------------------------ *)
(* Calendar dates: datetime + timedelta and strftime("%Y-%m-%d")        *)
(*   a date is [y, m, d]                                               *)
(* ------------------------------------------------------------------ *)
\* days since 1970-01-01 of a date of the proleptic Gregorian calendar
DaysFromCivil(dt) ==
    LET y1 == IF dt.m <= 2 THEN dt.y - 1 ELSE dt.y
        era == y1 \div 400
        yoe == y1 - era * 400
        mp == (dt.m + 9) % 12
        doy == (153 * mp + 2) \div 5 + dt.d - 1
        doe == yoe * 365 + yoe \div 4 - yoe \div 100 + doy
    IN  era * 146097 + doe - 719468

CivilFromDays(z) ==
    LET z1 == z + 719468
        era == z1 \div 146097
        doe == z1 - era * 146097
        yoe == (doe - doe \div 1460 + doe \div 36524 - doe \div 146096) \div 365
        doy == doe - (365 * yoe + yoe \div 4 - yoe \div 100)
        mp == (5 * doy + 2) \div 153
        d == doy - (153 * mp + 2) \div 5 + 1
        m == IF mp < 10 THEN mp + 3 ELSE mp - 9
    IN  [y |-> yoe + era * 400 + (IF m <= 2 THEN 1 ELSE 0), m |-> m, d |-> d]

\* (now + timedelta(days=n)).strftime("%Y-%m-%d")
AddDays(dt, n) == CivilFromDays(DaysFromCivil(dt) + n)

(* ------------------------------------------------------------------ *)
(* parse_followup_date                                                 *)
(* ------------------------------------------------------------------ *)
DigitChars == <<"0", "1", "2", "3", "4", "5", "6", "7", "8", "9">>
IsDigit(c) == \E i \in 1..10 : DigitChars[i] = c
DigitValue(c) == (CHOOSE i \in 1..10 : DigitChars[i] = c) - 1

\* the text has lit at position i
StartsWithAt(text, i, lit) ==
    /\ i >= 1 /\ i + Len(lit) - 1 <= Len(text)
    /\ SubSeq(text, i, i + Len(lit) - 1) = lit

\* (\d+) is greedy: the last digit of the run of digits that begins at i
RECURSIVE DigitRunEnd(_, _)
DigitRunEnd(text, i) ==
    IF i + 1 <= Len(text) /\ IsDigit(text[i + 1]) THEN DigitRunEnd(text, i + 1) ELSE i

\* int(match.group(1)) for the digits text[i..j]
RECURSIVE IntOf(_, _, _)
IntOf(text, i, j) ==
    IF j < i THEN 0 ELSE IntOf(text, i, j - 1) * 10 + DigitValue(text[j])

\* \s*: the first position from i on that holds no blank
RECURSIVE SkipSpaces(_, _)
SkipSpaces(text, i) ==
    IF i <= Len(text) /\ text[i] = " " THEN SkipSpaces(text, i + 1) ELSE i

\* (\d+)\s*unit matches at i ("months?" and "weeks?" need no final s)
NumUnitAt(text, i, unit) ==
    /\ i >= 1 /\ i <= Len(text) /\ IsDigit(text[i])
    /\ StartsWithAt(text, SkipSpaces(text, DigitRunEnd(text, i) + 1), unit)

In == <<"i", "n", " ">>
Month == <<"m", "o", "n", "t", "h">>
Week == <<"w", "e", "e", "k">>

\* the pattern matches at position i
MatchesAt(text, i, pat) ==
    CASE pat.re = "lit" -> StartsWithAt(text, i, pat.lit)
      [] pat.re = "in_num" -> StartsWithAt(text, i, In) /\ NumUnitAt(text, i + 3, pat.lit)
      [] pat.re = "num" -> NumUnitAt(text, i, pat.lit)
      [] pat.re = "q" -> /\ i + 1 <= Len(text) /\ text[i] = "q"
                         /\ text[i + 1] \in {"1", "2", "3", "4"}

\* re.search(pattern, text): the leftmost position of a match, 0 for no match
RECURSIVE SearchFrom(_, _, _)
SearchFrom(text, i, pat) ==
    IF i > Len(text) THEN 0
    ELSE IF MatchesAt(text, i, pat) THEN i
    ELSE SearchFrom(text, i + 1, pat)

Search(text, pat) == SearchFrom(text, 1, pat)

\* match.group(1) of a numeric pattern that matched at i
Group1(text, i, pat) ==
    LET b == IF pat.re = "in_num" THEN i + 3 ELSE i
    IN  IntOf(text, b, DigitRunEnd(text, b))

Delta(lit, days) == [re |-> "lit", lit |-> lit, rule |-> "delta", days |-> days]
Numeric(re, unit) ==
    [re |-> re, lit |-> unit, rule |-> IF unit = Month THEN "months" ELSE "weeks",
     days |-> 0]

NextQuarter == Delta(<<"n", "e", "x", "t", " ", "q", "u", "a", "r", "t", "e", "r">>, 90)
NextYear == Delta(<<"n", "e", "x", "t", " ", "y", "e", "a", "r">>, 365)
NextMonth == Delta(<<"n", "e", "x", "t", " ", "m", "o", "n", "t", "h">>, 30)
EndOfYear == [re |-> "lit", lit |-> <<"e", "n", "d", " ", "o", "f", " ", "y", "e", "a", "r">>,
              rule |-> "end of year", days |-> 0]
AfterTheHolidays == Delta(<<"a", "f", "t", "e", "r", " ", "t", "h", "e", " ", "h", "o", "l", "i", "d", "a", "y", "s">>, 45)
BeginningOfNext == Delta(<<"b", "e", "g", "i", "n", "n", "i", "n", "g", " ", "o", "f", " ", "n", "e", "x", "t">>, 30)
QuarterPattern == [re |-> "q", lit |-> <<"q">>, rule |-> "quarter", days |-> 0]

\* a pattern list in which both months patterns come before the weeks patterns
MonthsBeforeWeeksMutant ==
    <<NextQuarter, NextYear, NextMonth,
      Numeric("in_num", Month), Numeric("num", Month),
      Numeric("in_num", Week), Numeric("num", Week),
      EndOfYear, AfterTheHolidays, BeginningOfNext, QuarterPattern>>

\* patterns, in their order
Patterns ==
    <<NextQuarter, NextYear, NextMonth,
      Numeric("in_num", Month), Numeric("in_num", Week),
      Numeric("num", Month), Numeric("num", Week),
      EndOfYear, AfterTheHolidays, BeginningOfNext, QuarterPattern>>

\* "for pattern, delta in patterns: match = re.search(...); if match:"
\* the first pattern from the k-th on that is found in the text, 0 for none
RECURSIVE FirstMatchingFrom(_, _)
FirstMatchingFrom(text, k) ==
    IF k > Len(Patterns) THEN 0
    ELSE IF Search(text, Patterns[k]) # 0 THEN k
    ELSE FirstMatchingFrom(text, k + 1)

FirstMatching(text) == FirstMatchingFrom(text, 1)

\* a quarter that is always put in the current year
SameYearMutant(q, dt) == dt.y

\* year = now.year if int(q) > (now.month - 1) // 3 + 1 else now.year + 1
QuarterYear(q, dt) == IF q > (dt.m - 1) \div 3 + 1 THEN dt.y ELSE dt.y + 1

\* quarter_month = {"1": 1, "2": 4, "3": 7, "4": 10}.get(q, 1)
QuarterMonth(q) ==
    CASE q = 1 -> 1 [] q = 2 -> 4 [] q = 3 -> 7 [] q = 4 -> 10 [] OTHER -> 1

\* parse_followup_date(reply_text) when datetime.now is on the date dt
ParseFollowupDate(reply_text, dt) ==
    LET text == Lower(reply_text)
        k == FirstMatching(text)
    IN  IF k = 0 THEN AddDays(dt, 14)
        ELSE LET pat == Patterns[k]
                 i == Search(text, pat)
             IN  CASE pat.rule = "delta" -> AddDays(dt, pat.days)
                   [] pat.rule = "months" -> AddDays(dt, Group1(text, i, pat) * 30)
                   [] pat.rule = "weeks" -> AddDays(dt, Group1(text, i, pat) * 7)
                   [] pat.rule = "end of year" -> [y |-> dt.y, m |-> 12, d |-> 31]
                   [] pat.rule = "quarter" ->
                        LET q == DigitValue(text[i + 1])
                        IN  [y |-> QuarterYear(q, dt), m |-> QuarterMonth(q), d |-> 1]

(* ------------------------------------------------------------------ *)
(* extract_lead_data: the classification part of a lead record         *)
(* ------------------------------------------------------------------ *)
\* followup_date = "": no date
NoDate == [y |-> 0, m |-> 0, d |-> 0]

\* openai_classify_sentiment: None, or the fields of the answer as they are
NoVerdict == [ok |-> FALSE, reply_sentiment |-> "", taken_off_list |-> "",
              is_postponed |-> ""]
Verdict(s, off, post) == [ok |-> TRUE, reply_sentiment |-> s,
                          taken_off_list |-> off, is_postponed |-> post]

\* a classification that never asks the adapter
KeywordOnlyMutant(msgs, ai) == KeywordClassifySentiment(msgs)

\* classify_reply_sentiment: the adapter's answer if there is one, else keywords
ClassifyReplySentiment(msgs, ai) ==
    IF ai.ok
    THEN [reply_sentiment |-> ai.reply_sentiment,
          taken_off_list |-> ai.taken_off_list,
          is_postponed |-> ai.is_postponed]
    ELSE KeywordClassifySentiment(msgs)

\* a normalizer that classifies the sentiment of every conversation
AlwaysClassifyMutant(has_responded) == TRUE

\* "if has_responded: sentiment_data = classify_reply_sentiment(messages)"
ShouldClassify(has_responded) == has_responded

\* a normalizer that resolves a follow-up date for every record
AlwaysResolveMutant(is_postponed, text, dt) == ParseFollowupDate(text, dt)

\* followup_date = ""; if is_postponed == "true": parse_followup_date(...)
FollowupFor(is_postponed, text, dt) ==
    IF is_postponed = "true" THEN ParseFollowupDate(text, dt) ELSE NoDate

\* latest_response_text: the body of the latest inbound message with a timestamp
LatestResponseText(msgs) == LatestOf(Inbound(msgs), [ts |-> NoTs, body |-> <<>>]).body

\* extract_lead_data for a conversation with a profile (heyreach) or an email
\* (instantly): the record, the cache afterwards and the sentiment calls made
NormalizeLead(p, msgs, campaign_name, cache, aiSentiment, aiSector, dt) ==
    IF p = "heyreach" /\ msgs = <<>>
    THEN [kind |-> "none", cache |-> cache, calls |-> 0]
    ELSE LET inb == Inbound(msgs)
             has_responded == Len(inb) > 0
             sentiment_data ==
                 IF ShouldClassify(has_responded)
                 THEN ClassifyReplySentiment(msgs, aiSentiment)
                 ELSE [reply_sentiment |-> "Not Yet Responded",
                       taken_off_list |-> "no", is_postponed |-> "false"]
             sc == ClassifySector(p, campaign_name, cache, aiSector)
             text == LatestResponseText(msgs)
         IN  [kind |-> "lead",
              cache |-> sc.cache,
              calls |-> IF ShouldClassify(has_responded) THEN 1 ELSE 0,
              lead |-> [has_responded |-> IF has_responded THEN "true" ELSE "false",
                        reply_sentiment |-> sentiment_data.reply_sentiment,
                        latest_response_text |-> text,
                        taken_off_list |-> sentiment_data.taken_off_list,
                        is_postponed |-> sentiment_data.is_postponed,
                        followup_date |-> FollowupFor(sentiment_data.is_postponed,
                                                      text, dt),
                        sector |-> sc.sector,
                        response_count |-> Digits(Len(inb))]]

(* ------------------------------------------------------------------ *)
(* The normalizer on its own: any conversation, reply text and date    *)
(* ------------------------------------------------------------------ *)
Dates == {[y |-> 2024, m |-> 1, d |-> 15], [y |-> 2024, m |-> 8, d |-> 1],
          [y |-> 2024, m |-> 12, d |-> 20]}

\* an outbound text that has an opt-out and a postponement phrase in it
Pitch == <<"U", "n", "s", "u", "b", "s", "c", "r", "i", "b", "e", " ", "o", "r", " ", "t", "r", "y", " ", "a", "g", "a", "i", "n", " ", "n", "e", "x", "t", " ", "m", "o", "n", "t", "h">>
\* inbound texts
OptOutAndPostpone == <<"N", "o", "t", " ", "i", "n", "t", "e", "r", "e", "s", "t", "e", "d", ",", " ", "m", "a", "y", "b", "e", " ", "n", "e", "x", "t", " ", "q", "u", "a", "r", "t", "e", "r">>
PostponeMonths == <<"C", "i", "r", "c", "l", "e", " ", "b", "a", "c", "k", " ", "i", "n", " ", "3", " ", "m", "o", "n", "t", "h", "s">>
Eager == <<"S", "o", "u", "n", "d", "s", " ", "g", "r", "e", "a", "t">>

NormMsgs ==
    {Msg("ME", Iso(1), Pitch)}
    \cup {Msg("LEAD", Iso(1), b) : b \in {OptOutAndPostpone, PostponeMonths, Eager, <<>>}}
    \cup {Msg("LEAD", NoTs, PostponeMonths)}

NormConvs == UNION {[1..n -> NormMsgs] : n \in 0..MaxMsgs}

CampaignNames == {<<>>, <<"O", "t", "h", "e", "r">>, <<"H", "e", "a", "l", "t", "h", " ", "S", "u", "m", "m", "i", "t">>}

SectorVerdicts ==
    {NoSector} \cup {SectorAnswer(t) : t \in {<<>>, <<"O", "t", "h", "e", "r">>,
                                              <<"O", "T", "H", "E", "R", " ">>,
                                              <<"N", "o", "n", "p", "r", "o", "f", "i", "t">>}}

SentimentVerdicts ==
    {NoVerdict, Verdict("Postponed", "no", "true"), Verdict("Negative", "yes", "false"),
     Verdict("Negative", "yes", "true"), Verdict("Positive", "no", "True")}

ReplyTexts ==
    {<<>>,
     <<"r", "e", "a", "c", "h", " ", "o", "u", "t", " ", "l", "a", "t", "e", "r">>,
     <<"N", "e", "x", "t", " ", "q", "u", "a", "r", "t", "e", "r">>,
     <<"b", "e", "g", "i", "n", "n", "i", "n", "g", " ", "o", "f", " ", "n", "e", "x", "t", " ", "y", "e", "a", "r">>,
     <<"n", "e", "x", "t", " ", "m", "o", "n", "t", "h", " ", "o", "r", " ", "n", "e", "x", "t", " ", "y", "e", "a", "r">>,
     <<"i", "n", " ", "3", " ", "m", "o", "n", "t", "h", "s">>,
     <<"i", "n", " ", "2", " ", "w", "e", "e", "k", "s", " ", "o", "r", " ", "3", " ", "m", "o", "n", "t", "h", "s">>,
     <<"6", " ", "m", "o", "n", "t", "h", "s", ",", " ", "o", "r", " ", "i", "n", " ", "1", " ", "w", "e", "e", "k">>,
     <<"3", " ", "w", "e", "e", "k", "s", " ", "o", "r", " ", "2", " ", "m", "o", "n", "t", "h", "s">>,
     <<"2", " ", "m", "o", "n", "t", "h", "s", " ", "o", "r", " ", "3", " ", "w", "e", "e", "k", "s">>,
     <<"1", "0", "w", "e", "e", "k", "s">>,
     <<"i", "n", " ", "1", "2", " ", "m", "o", "n", "t", "h", "s">>,
     <<"i", "n", " ", "0", " ", "w", "e", "e", "k", "s">>,
     <<"e", "n", "d", " ", "o", "f", " ", "y", "e", "a", "r">>,
     <<"a", "f", "t", "e", "r", " ", "t", "h", "e", " ", "h", "o", "l", "i", "d", "a", "y", "s">>,
     <<"b", "e", "g", "i", "n", "n", "i", "n", "g", " ", "o", "f", " ", "n", "e", "x", "t", " ", "w", "e", "e", "k">>,
     <<"Q", "3">>,
     <<"b", "a", "c", "k", " ", "i", "n", " ", "q", "1">>,
     <<"Q", "2", " ", "o", "r", " ", "Q", "4">>,
     <<"q", "4", " ", "a", "t", " ", "t", "h", "e", " ", "e", "n", "d", " ", "o", "f", " ", "y", "e", "a", "r">>}

InitNormalize ==
    /\ NoFollowups /\ NoPostponed
    /\ today \in Dates
    /\ platform \in Platforms
    /\ nin \in [msgs : NormConvs, campaign : CampaignNames]
    /\ npc = "start" /\ nout = [op |-> "none"]
    /\ sector_cache \in {<<>>, ClassifySector(platform, nin.campaign, <<>>, NoSector).cache}
    /\ ncalls = 0
    /\ source = <<>> /\ store = <<>> /\ urlUnique = FALSE
    /\ stateFile = NoTs
    /\ clock = 1
    /\ pc = "idle" /\ env = "ok" /\ passes = 0
    /\ last_run = NoTs /\ now = 0
    /\ campaigns = <<>> /\ ci = 0
    /\ conversations = <<>> /\ vi = 0
    /\ all_leads = <<>> /\ errors = <<>> /\ results = ZeroResults
    /\ with_email = <<>> /\ without_email = <<>> /\ bi = 0 /\ ni = 0
    /\ log = {} /\ nReads = 0 /\ nWrites = 0 /\ storeReqs = 0
    /\ batchLog = <<>> /\ dedupIn = <<>> /\ store0 = <<>>
    /\ failed = {} /\ written = {} /\ skipped = {} /\ owed = {}
    /\ ckptAtLaunch = NoTs
    /\ prev = [ran |-> FALSE, read |-> FALSE, wrote |-> FALSE, last_run |-> NoTs]

restOfNormalize == <<source, urlUnique, store, stateFile, clock, platform, pc, env,
                     passes, locals, log, nReads, nWrites, upsertObs, dedupIn,
                     failed, written, skipped, owed, history, followups, today, nin,
                     postponed>>

\* keyword_classify_sentiment(messages)
KeywordClassify ==
    /\ npc = "start"
    /\ nout' = [op |-> "keyword", result |-> KeywordClassifySentiment(nin.msgs)]
    /\ npc' = "done"
    /\ UNCHANGED <<restOfNormalize, sector_cache, ncalls>>

\* parse_followup_date(reply_text)
ResolveFollowup ==
    /\ npc = "start"
    /\ \E text \in ReplyTexts :
          nout' = [op |-> "followup", text |-> text,
                   result |-> ParseFollowupDate(text, today)]
    /\ npc' = "done"
    /\ UNCHANGED <<restOfNormalize, sector_cache, ncalls>>

\* classify_sector(campaign_name, sector_cache)
ClassifySectorCall ==
    /\ npc = "start"
    /\ \E name \in CampaignNames, ai \in SectorVerdicts :
          LET r == ClassifySector(platform, name, sector_cache, ai)
          IN  /\ nout' = [op |-> "sector", name |-> name, ai |-> ai,
                          hit |-> name \in DOMAIN sector_cache, result |-> r.sector]
              /\ sector_cache' = r.cache
    /\ npc' = "done"
    /\ UNCHANGED <<restOfNormalize, ncalls>>

\* extract_lead_data(conversation, campaign_name, sector_cache)
ExtractLeadData ==
    /\ npc = "start"
    /\ \E aiSentiment \in SentimentVerdicts, aiSector \in SectorVerdicts :
          LET r == NormalizeLead(platform, nin.msgs, nin.campaign, sector_cache,
                                 aiSentiment, aiSector, today)
          IN  /\ nout' = IF r.kind = "lead"
                         THEN [op |-> "lead", ai |-> aiSentiment, lead |-> r.lead]
                         ELSE [op |-> "no lead"]
              /\ sector_cache' = r.cache
              /\ ncalls' = r.calls
    /\ npc' = "done"
    /\ UNCHANGED restOfNormalize

NextNormalize ==
    \/ KeywordClassify
    \/ ResolveFollowup
    \/ ClassifySectorCall
    \/ ExtractLeadData

SpecNormalize == InitNormalize /\ [][NextNormalize]_vars

(* ------------------------------------------------------------------ *)
(* Properties of the keyword sentiment classifier                      *)
(* ------------------------------------------------------------------ *)
\* the inbound text the keyword classifier looks at
InboundLower(msgs) == Strip(Lower(InboundText(msgs)))

\* C12: for an inbound text with an opt-out phrase and a postponement phrase
\* the keyword classifier answers Negative / yes / false, and it never answers
\* taken_off_list "yes" together with is_postponed "true"
C12_OptOutExcludesPostponed ==
    nout.op = "keyword" =>
        /\ ~(nout.result.taken_off_list = "yes" /\ nout.result.is_postponed = "true")
        /\ (/\ AnyPhrase(OPT_OUT_PHRASES, InboundLower(nin.msgs))
            /\ AnyPhrase(POSTPONE_PHRASES, InboundLower(nin.msgs)))
           => nout.result = [reply_sentiment |-> "Negative", taken_off_list |-> "yes",
                             is_postponed |-> "false"]

\* C13: a conversation without inbound messages is classified Not Yet
\* Responded / no / false, whatever its outbound messages say
C13_NoInboundNotYetResponded ==
    (nout.op = "keyword" /\ Inbound(nin.msgs) = <<>>) =>
        nout.result = [reply_sentiment |-> "Not Yet Responded", taken_off_list |-> "no",
                       is_postponed |-> "false"]

\* C13 witness: a classified conversation whose only messages are outbound ones
\* with an opt-out and a postponement phrase in them
C13_Witness ==
    /\ nout.op = "keyword"
    /\ nin.msgs # <<>> /\ Inbound(nin.msgs) = <<>>
    /\ AnyPhrase(OPT_OUT_PHRASES, Lower(nin.msgs[1].body))
    /\ AnyPhrase(POSTPONE_PHRASES, Lower(nin.msgs[1].body))
    /\ nout.result.reply_sentiment = "Not Yet Responded"

(* ------------------------------------------------------------------ *)
(* Properties of the lead record                                       *)
(* ------------------------------------------------------------------ *)
LeapYear(y) == y % 4 = 0 /\ (y % 100 # 0 \/ y % 400 = 0)

DaysInMonth(y, m) ==
    IF m = 2 THEN (IF LeapYear(y) THEN 29 ELSE 28)
    ELSE IF m \in {4, 6, 9, 11} THEN 30 ELSE 31

\* a date of the calendar that "%Y-%m-%d" writes in ten characters
ValidDate(dt) ==
    /\ dt.y \in 1000..9999
    /\ dt.m \in 1..12
    /\ dt.d \in 1..DaysInMonth(dt.y, dt.m)

DateBefore(a, b) ==
    \/ a.y < b.y
    \/ a.y = b.y /\ a.m < b.m
    \/ a.y = b.y /\ a.m = b.m /\ a.d < b.d

\* C14: a lead record with is_postponed "false" has no followup_date, one with
\* is_postponed "true" has a followup_date that is a date of the calendar and
\* is not before the date of the run
C14_FollowupCoupledToPostponed ==
    nout.op = "lead" =>
        /\ nout.lead.is_postponed = "false" => nout.lead.followup_date = NoDate
        /\ nout.lead.is_postponed = "true" =>
              /\ ValidDate(nout.lead.followup_date)
              /\ ~DateBefore(nout.lead.followup_date, today)

\* C14 witness: a reply "Circle back in 3 months" classified by keywords near the
\* end of a year, so that the follow-up falls in the next year
C14_Witness ==
    /\ nout.op = "lead" /\ ~nout.ai.ok
    /\ nout.lead.is_postponed = "true"
    /\ nout.lead.latest_response_text = PostponeMonths
    /\ nout.lead.followup_date = AddDays(today, 90)
    /\ nout.lead.followup_date.y = today.y + 1

\* C15: a lead record with has_responded "false" has reply_sentiment "Not Yet
\* Responded" and response_count "0", and no sentiment classifier was called
C15_NoResponseNoSentiment ==
    (nout.op = "lead" /\ nout.lead.has_responded = "false") =>
        /\ nout.lead.reply_sentiment = "Not Yet Responded"
        /\ nout.lead.response_count = Digits(0)
        /\ ncalls = 0

\* C15 witness: a record for a conversation of outbound messages only, made while
\* the adapter had a verdict to give
C15_Witness ==
    /\ nout.op = "lead" /\ nout.ai.ok
    /\ nin.msgs # <<>>
    /\ nout.lead.has_responded = "false"
    /\ nout.lead.reply_sentiment = "Not Yet Responded"
    /\ ncalls = 0

(* ------------------------------------------------------------------ *)
(* Properties of the sector classifier                                 *)
(* ------------------------------------------------------------------ *)
\* C16: the sector that classify_sector returns, the sector of a lead record and
\* every sector in the cache are not "Other", in any letter case
C16_SectorNeverOther ==
    /\ nout.op = "sector" => Lower(nout.result) # OtherLower
    /\ nout.op = "lead" => Lower(nout.lead.sector) # OtherLower
    /\ \A n \in DOMAIN sector_cache : Lower(sector_cache[n]) # OtherLower

\* C16 witness: the adapter answered "Other" in capitals for the empty campaign
\* name, which was not in the cache, and the fallback was stored
C16_Witness ==
    /\ nout.op = "sector" /\ ~nout.hit
    /\ nout.name = <<>>
    /\ nout.ai.ok /\ nout.ai.text = <<"O", "T", "H", "E", "R">>
    /\ <<>> \in DOMAIN sector_cache
    /\ sector_cache[<<>>] = nout.result
    /\ nout.result \in {Tech, Outreach}

(* ------------------------------------------------------------------ *)
(* Properties of the time resolver                                     *)
(* ------------------------------------------------------------------ *)
Found(text, pat) == Search(text, pat) # 0

\* the number N of "in N unit" or "N unit", where the pattern is found
NumberOf(text, pat) == Group1(text, Search(text, pat), pat)

\* none of "next quarter", "next year", "next month" is in the text
NoNextRule(text) ==
    ~Found(text, NextQuarter) /\ ~Found(text, NextYear) /\ ~Found(text, NextMonth)

\* C17: the rules are tried in the order next quarter, next year, next month,
\* months ("in N months" or "N months"), weeks ("in N weeks" or "N weeks"), ...:
\* a text with a months rule and a weeks rule in it, and none of the first
\* three, resolves by the months rule
C17_MonthsRuleBeforeWeeksRule ==
    nout.op = "followup" =>
        LET text == Lower(nout.text)
            inMonths == Numeric("in_num", Month)
            months == Numeric("num", Month)
        IN  (/\ NoNextRule(text)
             /\ Found(text, months)
             /\ Found(text, Numeric("num", Week)))
            => nout.result =
                  AddDays(today, 30 * (IF Found(text, inMonths)
                                       THEN NumberOf(text, inMonths)
                                       ELSE NumberOf(text, months)))

\* the date by the rules in the order: next quarter, next year, next month,
\* in N months, in N weeks, N months, N weeks; 0 days if none of them is found
NumericRuleDays(text) ==
    IF Found(text, NextQuarter) THEN 90
    ELSE IF Found(text, NextYear) THEN 365
    ELSE IF Found(text, NextMonth) THEN 30
    ELSE IF Found(text, Numeric("in_num", Month))
    THEN 30 * NumberOf(text, Numeric("in_num", Month))
    ELSE IF Found(text, Numeric("in_num", Week))
    THEN 7 * NumberOf(text, Numeric("in_num", Week))
    ELSE IF Found(text, Numeric("num", Month))
    THEN 30 * NumberOf(text, Numeric("num", Month))
    ELSE 7 * NumberOf(text, Numeric("num", Week))

\* C17 (amended): the first rule found decides, in the order next quarter (+90
\* days), next year (+365), next month (+30), "in N months" (+30N), "in N weeks"
\* (+7N), bare "N months" (+30N), bare "N weeks" (+7N), end of year (31 December
\* of this year), after the holidays (+45), beginning of next (+30), Q1..Q4, and
\* +14 days when none is found
C17_FirstRuleInCodeOrder ==
    nout.op = "followup" =>
        LET text == Lower(nout.text)
        IN  IF \/ ~NoNextRule(text)
               \/ Found(text, Numeric("num", Month))
               \/ Found(text, Numeric("num", Week))
            THEN nout.result = AddDays(today, NumericRuleDays(text))
            ELSE IF Found(text, EndOfYear)
            THEN nout.result = [y |-> today.y, m |-> 12, d |-> 31]
            ELSE IF Found(text, AfterTheHolidays)
            THEN nout.result = AddDays(today, 45)
            ELSE IF Found(text, BeginningOfNext)
            THEN nout.result = AddDays(today, 30)
            ELSE IF Found(text, QuarterPattern)
            THEN nout.result.d = 1 /\ nout.result.m \in {1, 4, 7, 10}
            ELSE nout.result = AddDays(today, 14)

\* C17 witness: "in 2 weeks or 3 months" has the bare months rule and the
\* "in N weeks" rule in it and is resolved to two weeks from the date of the run
C17_Witness ==
    /\ nout.op = "followup"
    /\ nout.text = <<"i", "n", " ", "2", " ", "w", "e", "e", "k", "s", " ", "o", "r", " ", "3", " ", "m", "o", "n", "t", "h", "s">>
    /\ Found(Lower(nout.text), Numeric("num", Month))
    /\ Found(Lower(nout.text), Numeric("in_num", Week))
    /\ nout.result = AddDays(today, 14)

\* no rule that is tried before the quarter rule is found in the text
QuarterRuleDecides(text) ==
    /\ NoNextRule(text)
    /\ ~Found(text, Numeric("num", Month)) /\ ~Found(text, Numeric("num", Week))
    /\ ~Found(text, EndOfYear) /\ ~Found(text, AfterTheHolidays)
    /\ ~Found(text, BeginningOfNext)
    /\ Found(text, QuarterPattern)

\* C18: a text resolved by the quarter rule gives day 1 of the first month of
\* the named quarter (January, April, July, October), of this year when the
\* quarter's number is greater than that of the quarter of the run, of the next
\* year otherwise
C18_QuarterRule ==
    (nout.op = "followup" /\ QuarterRuleDecides(Lower(nout.text))) =>
        LET text == Lower(nout.text)
            q == DigitValue(text[Search(text, QuarterPattern) + 1])
            current == (today.m - 1) \div 3 + 1
        IN  /\ q \in 1..4
            /\ nout.result = [y |-> IF q > current THEN today.y ELSE today.y + 1,
                              m |-> 3 * (q - 1) + 1,
                              d |-> 1]

\* C18 witness: "back in q1" on 2024-08-01 is resolved to 2025-01-01
C18_Witness ==
    /\ nout.op = "followup"
    /\ nout.text = <<"b", "a", "c", "k", " ", "i", "n", " ", "q", "1">>
    /\ today = [y |-> 2024, m |-> 8, d |-> 1]
    /\ QuarterRuleDecides(Lower(nout.text))
    /\ nout.result = [y |-> 2025, m |-> 1, d |-> 1]

(* ------------------------------------------------------------------ *)
(* The adapter and the keyword classifier in a lead record             *)
(* ------------------------------------------------------------------ *)
\* the sentiment fields of a lead record
SentimentFields(lead) ==
    [reply_sentiment |-> lead.reply_sentiment,
     taken_off_list |-> lead.taken_off_list,
     is_postponed |-> lead.is_postponed]

\* C22: for a lead that has responded the classifier is called once and the
\* record is made whatever the adapter did; its sentiment fields are the
\* adapter's answer, as it is, when the adapter gave one, and the keyword
\* classifier's answer when it gave none
C22_AdapterOrKeywords ==
    (nout.op = "lead" /\ nout.lead.has_responded = "true") =>
        /\ ncalls = 1
        /\ SentimentFields(nout.lead) =
              IF nout.ai.ok THEN SentimentFields(nout.ai)
              ELSE KeywordClassifySentiment(nin.msgs)

\* C22 witness: the adapter called a reply Positive that the keywords call
\* Postponed, and the record says what the adapter said
C22_Witness ==
    /\ nout.op = "lead" /\ nout.lead.has_responded = "true"
    /\ nout.ai = Verdict("Positive", "no", "True")
    /\ KeywordClassifySentiment(nin.msgs).reply_sentiment = "Postponed"
    /\ nout.lead.reply_sentiment = "Positive"
    /\ nout.lead.is_postponed = "True"
    /\ nout.lead.followup_date = NoDate

(* ------------------------------------------------------------------ *)
(* The survivor of a group of records in the deduplication             *)
(* ------------------------------------------------------------------ *)
RespondedOf(g) == SelectSeq(g, LAMBDA l : l.has_responded = "true")

\* the first record of g whose latest_response_date no record of g exceeds,
\* the dates compared as strings
FirstLatest(g) ==
    g[CHOOSE i \in 1..Len(g) :
        /\ \A j \in 1..Len(g) :
              ~StrLess(g[i].latest_response_date, g[j].latest_response_date)
        /\ \A j \in 1..(i - 1) :
              StrLess(g[j].latest_response_date, g[i].latest_response_date)]

\* the record the rule names for a group g: the first one if none has
\* responded, else the first of the responded ones with the greatest date
SurvivorOf(g) ==
    IF RespondedOf(g) = <<>> THEN g[1] ELSE FirstLatest(RespondedOf(g))

RequestsWith(l) ==
    {j \in 1..Len(batchLog) :
        \E i \in 1..Len(batchLog[j].batch) : batchLog[j].batch[i] = l}

RequestFailed(j) == batchLog[j].answer.kind \in {"http_error", "exception"}

\* C27: no record is sent to the store twice in a pass: when the upsert
\* returns, each record was in exactly one request, a batch request if it has
\* an email and an individual create otherwise; the records of a failed
\* request are counted as errors and are in no later request
C27_NoRetryWithinPass ==
    /\ storeReqs = Len(batchLog)
    /\ \A i \in 1..Len(all_leads) :
          LET l == all_leads[i]
              R == RequestsWith(l)
              nb == NumBatches(Len(with_email))
          IN  /\ Cardinality(R) <= 1
              /\ UpsertReturned => Cardinality(R) = 1
              /\ \A j \in R :
                    /\ l.email # <<>> => j <= nb
                    /\ l.email = <<>> => (j > nb /\ batchLog[j].batch = <<l>>)
                    /\ RequestFailed(j) => l.src \in failed
    /\ results.errors =
          Cardinality({i \in 1..Len(all_leads) :
                          \E j \in RequestsWith(all_leads[i]) : RequestFailed(j)})

\* C27 witness: heyreach, the first of two batch requests failed and so did an
\* individual create; three requests were sent and three records are errors
C27_Witness ==
    /\ UpsertReturned /\ platform = "heyreach"
    /\ NumBatches(Len(with_email)) = 2 /\ Len(without_email) = 1
    /\ storeReqs = 3
    /\ RequestFailed(1) /\ ~RequestFailed(2) /\ RequestFailed(3)
    /\ Len(batchLog[1].batch) = BatchSize
    /\ results.errors = BatchSize + 1

(* ------------------------------------------------------------------ *)
(* Order of reminder and flag in check_followups                       *)
(* ------------------------------------------------------------------ *)
\* C28 (as claimed): the is_postponed flag of a contact goes from "true" to
\* "false" only when a reminder for that contact was delivered; after a
\* failed send, or without a webhook, the flag stays "true".
C28_ClearedOnlyAfterDelivery ==
    [][\A id \in 1..Len(crm) :
          (crm[id].is_postponed = "true" /\ crm'[id].is_postponed = "false")
              => reminders[id] > 0]_vars

(* ------------------------------------------------------------------ *)
(* The checkpoint and the conversations a pass processes               *)
(* ------------------------------------------------------------------ *)
\* the latest activity of conv is an instant before the checkpoint
EarlierThanCheckpoint(conv, ckpt) ==
    /\ ckpt.fmt # "none"
    /\ LatestTs(conv).fmt # "none"
    /\ LatestTs(conv).t < ckpt.t

\* C25 (as claimed): with a checkpoint, a pass skips the conversations whose
\* latest activity is earlier than the checkpoint (they give no record and no
\* error) and skips no other; without a checkpoint it skips none.
C25_CheckpointScopesProcessing ==
    [][pc = "conv" =>
          IF EarlierThanCheckpoint(conversations[vi], last_run)
          THEN all_leads' = all_leads /\ errors' = errors
          ELSE skipped' = skipped]_vars

(* ------------------------------------------------------------------ *)
(* extract_lead_data: identity and date fields of one conversation     *)
(* ------------------------------------------------------------------ *)
\* the timestamps of the messages: none, epoch milliseconds, ISO in UTC, ISO
\* with an offset of one unit east or west
ExtractStamps == {NoTs, Ms(3), Iso(3), IsoAt(3, 1), IsoAt(2, 0 - 1)}

ExtractMsgs == {Msg(w, ts, "intro") : w \in {"ME", "LEAD"}, ts \in ExtractStamps}

ExtractConvs ==
    {Conv("X", url, email, NoTs, msgs) :
        url \in {"", "p1"}, email \in {<<>>, <<"a">>},
        msgs \in UNION {[1..n -> ExtractMsgs] : n \in 0..MaxMsgs}}

InitExtract ==
    /\ NoFollowups /\ NoPostponed
    /\ today = [y |-> 2024, m |-> 1, d |-> 1]
    /\ platform \in Platforms
    /\ nin \in ExtractConvs
    /\ npc = "start" /\ nout = [op |-> "none"]
    /\ sector_cache = <<>> /\ ncalls = 0
    /\ source = <<>> /\ store = <<>> /\ urlUnique = FALSE
    /\ stateFile = NoTs
    /\ clock = 1
    /\ pc = "idle" /\ env = "ok" /\ passes = 0
    /\ last_run = NoTs /\ now = 0
    /\ campaigns = <<>> /\ ci = 0
    /\ conversations = <<>> /\ vi = 0
    /\ all_leads = <<>> /\ errors = <<>> /\ results = ZeroResults
    /\ with_email = <<>> /\ without_email = <<>> /\ bi = 0 /\ ni = 0
    /\ log = {} /\ nReads = 0 /\ nWrites = 0 /\ storeReqs = 0
    /\ batchLog = <<>> /\ dedupIn = <<>> /\ store0 = <<>>
    /\ failed = {} /\ written = {} /\ skipped = {} /\ owed = {}
    /\ ckptAtLaunch = NoTs
    /\ prev = [ran |-> FALSE, read |-> FALSE, wrote |-> FALSE, last_run |-> NoTs]

\* extract_lead_data(conversation, ...) of heyreach; extract_lead_data(lead,
\* emails, ...) of instantly, whose caller hands over the fetched emails or []
ExtractIdentityAndDates ==
    /\ npc = "start"
    /\ \E emails \in {<<>>, nin.msgs} :
          /\ platform = "heyreach" => emails = nin.msgs
          /\ nout' = [op |-> "extract", msgs |-> emails,
                      result |-> Extract(platform, nin, emails)]
    /\ npc' = "done"
    /\ UNCHANGED <<restOfNormalize, sector_cache, ncalls>>

NextExtract == ExtractIdentityAndDates

SpecExtract == InitExtract /\ [][NextExtract]_vars

RECURSIVE MsValue(_)
MsValue(s) == IF s = <<>> THEN 0 ELSE 10 * MsValue(SubSeq(s, 1, Len(s) - 1)) + s[Len(s)]

MidnightUtcOrEmpty(s) == s = <<>> \/ MsValue(s) % DayLen = 0

\* C23 (as claimed): the date fields of a record are empty or the milliseconds
\* of a midnight UTC, a multiple of one day, also for a timestamp with an
\* offset
C23_DatesAreMidnightUtc ==
    (nout.op = "extract" /\ nout.result.kind = "lead") =>
        /\ MidnightUtcOrEmpty(nout.result.lead.latest_outbound_date)
        /\ MidnightUtcOrEmpty(nout.result.lead.latest_response_date)

(* ------------------------------------------------------------------ *)
(* A sync pass with the classification of the replies                  *)
(*   the source and the store answer every request, the adapters are   *)
(*   not configured, every lead has an email                           *)
(* ------------------------------------------------------------------ *)
\* datetime.now(timezone.utc) as a date: day 0 of the clock is 2024-12-20
DateOf(c) == AddDays([y |-> 2024, m |-> 12, d |-> 20], c \div DayLen)

HealthSummit == <<"H", "e", "a", "l", "t", "h", " ", "S", "u", "m", "m", "i", "t">>

\* a lead who asks to be contacted again in three months
PostponedA == Conv("A", "p1", <<"a">>, Iso(0),
                   <<Msg("ME", Iso(0), Pitch), Msg("LEAD", Iso(0), PostponeMonths)>>)
\* the same person, in another campaign, with the same answer
PostponedB == Conv("B", "p1", <<"a">>, Iso(0),
                   <<Msg("ME", Iso(0), Pitch), Msg("LEAD", Iso(0), PostponeMonths)>>)
\* a lead who is interested, and one who has not answered
EagerC == Conv("C", "p3", <<"c">>, Iso(0),
               <<Msg("ME", Iso(0), Pitch), Msg("LEAD", Iso(0), Eager)>>)
SilentD == Conv("D", "p4", <<"d">>, Iso(0), <<Msg("ME", Iso(0), Pitch)>>)

Campaign(name, convs) == [name |-> name, convs |-> convs]

PostponedSources ==
    {<<Campaign(HealthSummit, <<PostponedA, EagerC>>), Campaign(<<>>, <<PostponedB>>)>>,
     <<Campaign(HealthSummit, <<PostponedA>>)>>,
     <<Campaign(HealthSummit, <<EagerC, SilentD>>)>>,
     <<Campaign(<<>>, <<SilentD, PostponedB>>)>>}

\* the conversations the two loops of main meet, in order, each with the name
\* of its campaign
RECURSIVE AllConversations(_)
AllConversations(cs) ==
    IF cs = <<>> THEN <<>>
    ELSE [i \in 1..Len(Head(cs).convs) |->
             [conv |-> Head(cs).convs[i], name |-> Head(cs).name]]
         \o AllConversations(Tail(cs))

IdentityFields == {"src", "email", "linkedin", "latest_outbound_date",
                   "latest_response_date"}

\* extract_lead_data, all the fields of the record
FullLead(p, conv, emails, campaign_name, cache, dt) ==
    LET x == Extract(p, conv, emails)
        n == NormalizeLead(p, emails, campaign_name, cache, NoVerdict, NoSector, dt)
    IN  IF x.kind # "lead" THEN [kind |-> x.kind, cache |-> cache]
        ELSE [kind |-> "lead", cache |-> n.cache,
              lead |-> [f \in IdentityFields \cup DOMAIN n.lead |->
                           IF f \in IdentityFields THEN x.lead[f] ELSE n.lead[f]]]

\* "if v" of {k: v for k, v in lead.items() if v}, for all the fields
SentToStore(f, v) ==
    IF f = "src" THEN TRUE
    ELSE IF f = "followup_date" THEN v # NoDate
    ELSE IF f \in {"linkedin", "has_responded", "reply_sentiment", "taken_off_list",
                   "is_postponed"} THEN v # ""
    ELSE v # <<>>

\* the store overwrites the properties the request carries
MergeFull(old, lead) ==
    [f \in DOMAIN lead |-> IF SentToStore(f, lead[f]) THEN lead[f] ELSE old[f]]

\* the keyed batch upsert of the items, in order
RECURSIVE UpsertFull(_, _)
UpsertFull(st, items) ==
    IF items = <<>> THEN st
    ELSE LET lead == Head(items)
             i == StoreFind(st, StoreKey(lead))
         IN  UpsertFull(IF i = 0 THEN Append(st, NewContact(lead))
                        ELSE [st EXCEPT ![i].props = MergeFull(@, lead)],
                        Tail(items))

\* the batches b..NumBatches of leads, batch k accepted iff oks[k]
RECURSIVE UpsertBatches(_, _, _, _)
UpsertBatches(st, leads, oks, b) ==
    IF b > NumBatches(Len(leads)) THEN st
    ELSE UpsertBatches(IF oks[b] THEN UpsertFull(st, BatchAt(leads, b)) ELSE st,
                       leads, oks, b + 1)

InitPostponed ==
    /\ NoFollowups /\ NoNormalizer /\ NoPostponed
    /\ source \in PostponedSources
    /\ store = <<>>
    /\ urlUnique = FALSE
    /\ stateFile = NoTs
    /\ clock = 1
    /\ platform \in Platforms
    /\ pc = "idle" /\ env = "ok" /\ passes = 0
    /\ last_run = NoTs /\ now = 0
    /\ campaigns = <<>> /\ ci = 0
    /\ conversations = <<>> /\ vi = 0
    /\ all_leads = <<>> /\ errors = <<>> /\ results = ZeroResults
    /\ with_email = <<>> /\ without_email = <<>> /\ bi = 0 /\ ni = 0
    /\ log = {} /\ nReads = 0 /\ nWrites = 0 /\ storeReqs = 0
    /\ batchLog = <<>> /\ dedupIn = <<>> /\ store0 = <<>>
    /\ failed = {} /\ written = {} /\ skipped = {} /\ owed = {}
    /\ ckptAtLaunch = NoTs
    /\ prev = [ran |-> FALSE, read |-> FALSE, wrote |-> FALSE, last_run |-> NoTs]

restOfPostponed == <<source, urlUnique, platform, env, ci, results, with_email,
                     without_email, bi, ni, log, nReads, nWrites, store0, failed,
                     written, owed, history, followups, today, nin, npc, nout,
                     ncalls, slack>>

\* main, from its start to the loop over the campaigns
StartPass ==
    /\ pc = "idle"
    /\ passes < MaxPasses
    /\ passes' = passes + 1
    /\ last_run' = stateFile /\ now' = clock
    /\ campaigns' = source
    /\ conversations' = AllConversations(source) /\ vi' = 1
    /\ all_leads' = <<>> /\ postponed_leads' = <<>> /\ sector_cache' = <<>>
    /\ errors' = <<>> /\ skipped' = {}
    /\ summary' = NoSummary
    /\ pc' = "conv"
    /\ UNCHANGED <<restOfPostponed, store, stateFile, clock, storeReqs, batchLog,
                   dedupIn>>

\* one iteration of the loop over the conversations: the incremental filter
\* (heyreach), the fetch of the emails (instantly), extract_lead_data, and the
\* two appends
NormalizeConversation ==
    /\ pc = "conv"
    /\ LET conv == conversations[vi].conv
           replies == Len(Inbound(conv.msgs))
       IN  IF FilteredOut(platform, conv, last_run)
           THEN /\ skipped' = skipped \cup {conv.id}
                /\ UNCHANGED <<all_leads, postponed_leads, sector_cache, errors>>
           ELSE IF platform = "instantly" /\ conv.email = <<>>
           THEN UNCHANGED <<all_leads, postponed_leads, sector_cache, errors, skipped>>
           ELSE \E fetched \in BOOLEAN :
                  LET emails == IF platform = "instantly" /\ (replies = 0 \/ ~fetched)
                                THEN <<>> ELSE conv.msgs
                      r == FullLead(platform, conv, emails, conversations[vi].name,
                                    sector_cache, DateOf(clock))
                  IN  /\ (platform = "heyreach" \/ replies = 0) => fetched
                      /\ all_leads' = IF r.kind = "lead"
                                      THEN Append(all_leads, r.lead) ELSE all_leads
                      /\ postponed_leads' =
                            IF r.kind = "lead" /\ r.lead.is_postponed = "true"
                            THEN Append(postponed_leads, r.lead) ELSE postponed_leads
                      /\ errors' = IF r.kind = "raise"
                                   THEN Append(errors, [kind |-> "lead", id |-> conv.id])
                                   ELSE errors
                      /\ sector_cache' = r.cache
                      /\ UNCHANGED skipped
    /\ vi' = vi + 1
    /\ pc' = IF vi < Len(conversations) THEN "conv" ELSE "dedup"
    /\ UNCHANGED <<restOfPostponed, store, stateFile, clock, passes, last_run, now,
                   campaigns, conversations, storeReqs, batchLog, dedupIn, summary>>

\* "Deduplicate leads by email"
DeduplicateLeads ==
    /\ pc = "dedup"
    /\ dedupIn' = all_leads
    /\ all_leads' = Dedup(platform, all_leads)
    /\ pc' = "upsert"
    /\ UNCHANGED <<restOfPostponed, store, stateFile, clock, passes, last_run, now,
                   campaigns, conversations, vi, errors, skipped, storeReqs, batchLog,
                   postponed_leads, sector_cache, summary>>

\* "if all_leads: results = batch_upsert_contacts(all_leads)": one request per
\* batch, each accepted or failed
UpsertAll ==
    /\ pc = "upsert"
    /\ \E oks \in [1..NumBatches(Len(all_leads)) -> BOOLEAN] :
          /\ store' = UpsertBatches(store, all_leads, oks, 1)
          /\ batchLog' = batchLog \o
                 [b \in 1..NumBatches(Len(all_leads)) |->
                     [batch |-> BatchAt(all_leads, b), ok |-> oks[b], pass |-> passes]]
    /\ storeReqs' = storeReqs + NumBatches(Len(all_leads))
    /\ pc' = "save"
    /\ UNCHANGED <<restOfPostponed, stateFile, clock, passes, last_run, now,
                   campaigns, conversations, vi, all_leads, errors, skipped, dedupIn,
                   postponed_leads, sector_cache, summary>>

\* "5. Save state" and "6. Summary"
SaveAndSummarize ==
    /\ pc = "save"
    /\ stateFile' = SavedValue
    /\ summary' = [logged |-> TRUE, leads |-> Len(all_leads),
                   postponed |-> Len(postponed_leads)]
    /\ pc' = "idle"
    /\ UNCHANGED <<restOfPostponed, store, clock, passes, last_run, now, campaigns,
                   conversations, vi, all_leads, errors, skipped, storeReqs, batchLog,
                   dedupIn, postponed_leads, sector_cache>>

\* time passes
ClockTick ==
    /\ clock < MaxClock
    /\ clock' = clock + 1
    /\ UNCHANGED <<restOfPostponed, store, stateFile, pc, passes, last_run, now,
                   campaigns, conversations, vi, all_leads, errors, skipped,
                   storeReqs, batchLog, dedupIn, postponed_leads, sector_cache,
                   summary>>

NextPostponed ==
    \/ StartPass
    \/ NormalizeConversation
    \/ DeduplicateLeads
    \/ UpsertAll
    \/ SaveAndSummarize
    \/ ClockTick

SpecPostponed == InitPostponed /\ [][NextPostponed]_vars

\* the pass logged its summary and returned
PassSummarized == pc = "idle" /\ summary.logged

PostponedIn(leads) == Cardinality({i \in 1..Len(leads) : leads[i].is_postponed = "true"})

\* C24 (as claimed): when a pass has completed, one message was posted to the
\* notification sink for each lead the pass classified as postponed
C24_OneMessagePerPostponedLead ==
    PassSummarized => Len(slack) = Len(postponed_leads)

\* C29 (as claimed): the postponed count of the summary is the number of
\* records with is_postponed = "true" among the deduplicated leads handed to
\* the upsert
C29_SummaryCountsDeduplicatedLeads ==
    PassSummarized => summary.postponed = PostponedIn(all_leads)

\* C30 (as claimed): the conversations do not change, so a follow-up date that
\* the store holds for a contact is not moved by a later pass
C30_FollowupDateStable ==
    [][\A i \in 1..Len(store) :
          store[i].props.followup_date # NoDate
              => store'[i].props.followup_date = store[i].props.followup_date]_vars

====
